---- MODULE Spec2Model ----
(***************************************************************************)
(* A model of the asynchronous iteration engine of streamo:                *)
(*   - bufferingIterable (src/src/AsyncIterables.ts:283-354), driven by    *)
(*     free callers or by AsyncStream.findFirst;                           *)
(*   - limitingIterable (src/src/AsyncIterables.ts:245-275);               *)
(*   - the AsyncStream facade and its terminal-once discipline             *)
(*     (src/src/Collectors.ts:208-438);                                    *)
(*   - stop() forwarding through a chain of combinators.                   *)
(*                                                                         *)
(* JavaScript runs one task at a time.  Every await is a suspension point; *)
(* a continuation whose promise is already resolved is a microtask and     *)
(* runs before any timer fires.  Steps are therefore split in micro steps  *)
(* and macro steps; a macro step is enabled only when no micro step is.    *)
(* The order among micro steps is left open.                               *)
(***************************************************************************)
EXTENDS Integers, Sequences, FiniteSets, TLC

\* ---------------------------------------------------------------- bounds
MaxLen == 2
MaxSize == 2
MaxStops == 1
MaxOver == 3
MaxCalls == MaxLen + 1
MaxMax == 2
MaxPulls == 3
MaxLimitCalls == MaxMax + 2
MaxOps == 3
MaxChain == 2
MaxFail == 1
MaxItems == 3
MaxBatch == 2
MaxTCalls == MaxItems + 2
MaxOuter == 2
MaxInner == 2
MaxSpare == 1
MaxFCalls == MaxOuter + 2

\* the pipeline of 'stops the stream before all values are loaded'
TestLen == 8
TestSize == 3

\* AsyncOptional.empty(); the present values are 1, 2, ...
Absent == 0
NoOpt == [val |-> Absent]

\* a promise that rejects, of next() or inside an AsyncOptional
Failure == Absent - 1

VARIABLES
  bcfg,        \* bufferingIterable: upstream kind, source length, size, driver
  iterable,    \* the upstream of the buffer: source position, next() and stop() calls
  buffer,      \* the closure state of bufferingIterable: stop, pending, ready, index
  caller,      \* the downstream next() calls in progress
  bhist,       \* what the buffer has returned so far
  lcfg,        \* limitingIterable: source length and max
  source,      \* the source of the limit: position, next() and stop() calls
  limit,       \* the closure state of limitingIterable: stop, count
  puller,      \* the next() calls on the limit in progress
  lhist,       \* what the limit has returned so far
  scfg,        \* AsyncStream: the length of its source and the values its predicate accepts
  stream,      \* the AsyncStream instance: hasTerminated
  asyncIterable, \* the iterable the stream wraps: position, next() and stop() calls, promise
  operation,   \* the terminal operation that runs on the stream
  shist,       \* the calls made on the stream and how they ended
  chain,       \* a chain of combinators over a source, innermost first
  stopped,     \* the stop flag of each combinator of the chain
  stopCalls,   \* how often stop() was called on each level; level 0 is the source
  pcfg,   \* a source or a filter over it: kind, source length, values the predicate accepts
  upstream,   \* the synchronous source behind iterableToAsync: position and getNext() calls
  filtered,   \* the closure state of filteredAsyncIterable: stopped
  taker,   \* the next() calls on the source or the filter in progress
  phist,  \* the results of these calls, those of calls made after stop() apart
  tcfg,   \* transformingAsyncIterable with batch: source length and batch size
  tsource,   \* the source of the transforming iterable: position, next() and stop() calls
  transforming,   \* the closure state of transformingAsyncIterable: stop, accumulator
  tcaller,   \* the next() calls on the transforming iterable in progress
  thist,  \* what the transforming iterable has returned so far, and the calls of the finisher
  fcfg,   \* flatMappedAsyncIterable: the lengths of the inner streams the mapper returns
  fsource,   \* the source of the flat-mapping iterable: position, next() and stop() calls
  inner,   \* the position of each inner iterable; 0 is the initial emptyAsyncIterable
  flat,   \* the closure state of flatMappedAsyncIterable: done, availableIterables, awaiting
  fcaller,   \* the next() calls on the flat-mapping iterable in progress
  fhist,  \* what the flat-mapping iterable has returned so far
  ocfg,   \* AsyncOptional.stream(): the value of the optional, or Absent
  optionalStream,   \* the closure state of AsyncOptional.stream(): done
  ocaller,   \* the next() calls on the stream of the optional whose promise is not yet consumed
  ohist,  \* what these calls returned, in call order and in the order the results were consumed
  kcfg,   \* TakeWhileIterable: the length of its source and the values the predicate accepts
  takeWhile,   \* the fields of TakeWhileIterable: first, next, and the index of its source
  toArray,  \* Stream.toArray draining it: position in the loop, the array
  mcfg,   \* map(asyncMapper).toArray(): the length of the source, the elements mapped to undefined
  mapped,   \* mappedAsyncIterable over iterableToAsync: source position, promise of next(), mappers running
  collecting,  \* collectAsync: its position, the AsyncOptional it holds, the array, what it has seen
  gen,   \* sequentialGeneratingIterable: its promises list, the generator's invocations
  gcaller,   \* the callers of its next(): position, what they wait for, the invocation they started
  ghist,  \* what its calls returned
  icfg,   \* the synchronous iterable under test: its kind, arrays, predicate and transformer
  iter,   \* the fields of the iterable object and of the iterables it wraps
  ihist   \* what the consumer of the iterable has seen

bvars == <<bcfg, iterable, buffer, caller, bhist>>

lvars == <<lcfg, source, limit, puller, lhist>>

svars == <<scfg, stream, asyncIterable, operation, shist>>

cvars == <<chain, stopped, stopCalls>>

pvars == <<pcfg, upstream, filtered, taker, phist>>

tvars == <<tcfg, tsource, transforming, tcaller, thist>>

fvars == <<fcfg, fsource, inner, flat, fcaller, fhist>>

ovars == <<ocfg, optionalStream, ocaller, ohist>>

kvars == <<kcfg, takeWhile, toArray>>

mvars == <<mcfg, mapped, collecting>>

gvars == <<gen, gcaller, ghist>>

ivars == <<icfg, iter, ihist>>

vars == <<bvars, lvars, svars, cvars, pvars, tvars, fvars, ovars, kvars, mvars, gvars, ivars>>

\* what the steps of the buffer leave alone
nonBuffer == <<lvars, svars, cvars, pvars, tvars, fvars, ovars, kvars, mvars, gvars, ivars>>

\* what the steps of the limit leave alone
nonLimit == <<bvars, svars, cvars, pvars, tvars, fvars, ovars, kvars, mvars, gvars, ivars>>

\* what the steps of the stream leave alone
nonStream == <<bvars, lvars, cvars, pvars, tvars, fvars, ovars, kvars, mvars, gvars, ivars>>

\* what the steps of the chain leave alone
nonChain == <<bvars, lvars, svars, pvars, tvars, fvars, ovars, kvars, mvars, gvars, ivars>>

\* what the steps of a source or a filter leave alone
nonPipe == <<bvars, lvars, svars, cvars, tvars, fvars, ovars, kvars, mvars, gvars, ivars>>

\* what the steps of the transforming iterable leave alone
nonTransform == <<bvars, lvars, svars, cvars, pvars, fvars, ovars, kvars, mvars, gvars, ivars>>

\* what the steps of the flat-mapping iterable leave alone
nonFlat == <<bvars, lvars, svars, cvars, pvars, tvars, ovars, kvars, mvars, gvars, ivars>>

\* what the steps of the stream of an optional leave alone
nonOptional == <<bvars, lvars, svars, cvars, pvars, tvars, fvars, kvars, mvars, gvars, ivars>>

\* what the steps of the synchronous takeWhile leave alone
nonTakeWhile == <<bvars, lvars, svars, cvars, pvars, tvars, fvars, ovars, mvars, gvars, ivars>>

\* what the steps of toArray over a mapped stream leave alone
nonMap == <<bvars, lvars, svars, cvars, pvars, tvars, fvars, ovars, kvars, gvars, ivars>>

\* what the steps of sequentialGeneratingIterable leave alone
nonGen == <<bvars, lvars, svars, cvars, pvars, tvars, fvars, ovars, kvars, mvars, ivars>>

\* what the steps of the synchronous iterables leave alone
nonIter == <<bvars, lvars, svars, cvars, pvars, tvars, fvars, ovars, kvars, mvars, gvars>>

\* two callers of next(), so that calls overlap
Procs == {1, 2}

RECURSIVE SeqToSet(_)
SeqToSet(s) == IF s = <<>> THEN {} ELSE {Head(s)} \cup SeqToSet(Tail(s))

\* ------------------------------------------------------ bufferingIterable

\* the pipeline of the concurrency test: sync source, async mapper, buffer(3), findFirst
TestCfg ==
  [kind |-> "mapped", len |-> TestLen, size |-> TestSize, driver |-> "findFirst",
   fails |-> {}, failAt |-> "next"]

\* the pipeline of the sequential generation test: sequentialGeneratingIterable under
\* buffer(3)
SequentialCfgs ==
  [kind : {"sequential"}, len : 0..MaxLen, size : {TestSize}, driver : {"free"},
   fails : {{}}, failAt : {"next"}]

BufferCfgs ==
  [kind : {"generic"}, len : 0..MaxLen, size : 1..MaxSize, driver : {"free", "findFirst"},
   fails : {{}}, failAt : {"next"}]
    \cup {TestCfg} \cup SequentialCfgs

\* an upstream whose call number i fails: its next() rejects, as that of a filter whose
\* predicate throws, or it resolves to an AsyncOptional whose promise rejects, as
\* that of a map whose mapper throws
FailCfgs ==
  [kind : {"generic"}, len : 0..MaxLen, size : 1..MaxSize, driver : {"free", "findFirst"},
   fails : {{i} : i \in 0..MaxFail}, failAt : {"next", "optional"}]

\* nothing has been called yet
NoHistory ==
  [delivered |-> <<>>, absents |-> 0, calls |-> 0, overlapped |-> FALSE, stops |-> 0,
   overtaken |-> FALSE, rejected |-> {}, errors |-> 0]

IdleCaller == [pc |-> "idle", buffered |-> NoOpt, isPresent |-> FALSE, ff |-> FALSE]

BufferInit ==
  /\ bcfg \in BufferCfgs
  /\ iterable = [pos |-> 0, calls |-> 0, stops |-> 0, mapping |-> {}]
  /\ buffer = [stop |-> FALSE, pending |-> <<>>, ready |-> <<>>, index |-> 0]
  /\ caller = [p \in Procs |-> IdleCaller]
  /\ bhist = NoHistory

\* iterableToAsync.next: the element is taken from the source when next() is called
FetchValue(u) ==
  IF u.calls \in bcfg.fails THEN Failure
  ELSE IF u.pos < bcfg.len THEN u.pos + 1 ELSE Absent

\* queueMore's loop condition, off by one
CanQueueOffByOne(b) == ~b.stop /\ Cardinality(DOMAIN b.pending) <= bcfg.size

\* queueMore's loop condition without the stop flag
CanQueueIgnoringStop(b) == Cardinality(DOMAIN b.pending) < bcfg.size

\* queueMore's loop condition
CanQueue(b) == ~b.stop /\ Cardinality(DOMAIN b.pending) < bcfg.size

\* the body of queueMore's loop: call iterable.next(), register it under index++
IssueFetch(st) ==
  [buf |-> [st.buf EXCEPT !.pending = (st.buf.index :> FetchValue(st.up)) @@ @,
                          !.index = @ + 1],
   up  |-> [st.up EXCEPT !.pos = IF @ < bcfg.len THEN @ + 1 ELSE @,
                         !.calls = @ + 1]]

\* queueMore up to its sleep
RECURSIVE QueueMore(_)
QueueMore(st) == IF CanQueue(st.buf) THEN QueueMore(IssueFetch(st)) ELSE st

\* ready.pop() takes the most recently pushed result
Pop(b) == [b EXCEPT !.ready = SubSeq(@, 1, Len(@) - 1)]

\* nextReadyOne from its loop test to the await of isPresent, or to 'return undefined'
NextReadyOneHead(st, pr) ==
  IF st.buf.ready # <<>>
  THEN [st  |-> [st EXCEPT !.buf = Pop(@)],
        pr  |-> [pr EXCEPT !.pc = "isPresent",
                           !.buffered = st.buf.ready[Len(st.buf.ready)]],
        ret |-> <<>>]
  ELSE [st |-> st, pr |-> [pr EXCEPT !.pc = "available"], ret |-> <<>>]

\* the loop of next with the test 'while (!stop)': the ready queue is not looked at
NextLoopHeadStopOnly(st, pr) ==
  IF ~st.buf.stop
  THEN NextReadyOneHead(st, pr)
  ELSE [st |-> st, pr |-> pr, ret |-> <<Absent>>]

\* the loop of next without its test: 'while (true)'
NextLoopHeadForever(st, pr) == NextReadyOneHead(st, pr)

\* the loop test of next, then the call of nextReadyOne, or the final 'return empty'
NextLoopHead(st, pr) ==
  IF ~st.buf.stop \/ st.buf.ready # <<>>
  THEN NextReadyOneHead(st, pr)
  ELSE [st |-> st, pr |-> pr, ret |-> <<Absent>>]

\* next from its call to its first await
NextEntry(st, pr) ==
  IF st.buf.stop /\ st.buf.ready = <<>>
  THEN [st |-> st, pr |-> pr, ret |-> <<Absent>>]
  ELSE NextLoopHead(st, pr)

\* the stop method of the buffer
BufferStop(st) ==
  [buf |-> [st.buf EXCEPT !.stop = TRUE],
   up  |-> [st.up EXCEPT !.stops = @ + 1]]

Now == [buf |-> buffer, up |-> iterable]

\* the model follows the buffer up to MaxOver fetches beyond the end of the source
WithinBounds(st) == st.buf.index <= bcfg.len + MaxOver

\* what a step of next() returned is recorded: r.ret is <<>> or <<result>>; so is the
\* pop of an absent result from a ready queue that still holds a present one
Returned(h, r) ==
  IF r.ret = <<>>
  THEN [h EXCEPT !.overtaken = @ \/ (/\ r.pr.pc = "isPresent"
                                     /\ r.pr.buffered.val = Absent
                                     /\ \E k \in 1..Len(r.st.buf.ready) :
                                           r.st.buf.ready[k].val # Absent)]
  ELSE [h EXCEPT !.delivered = IF r.ret[1] # Absent THEN Append(@, r.ret[1]) ELSE @,
                 !.absents = IF r.ret[1] = Absent THEN @ + 1 ELSE @]

\* a step of caller p ends in r: the new closure state and p's position
Commit(p, r) ==
  /\ buffer' = r.st.buf
  /\ iterable' = r.st.up
  /\ caller' = [caller EXCEPT ![p] =
        IF r.ret = <<>> THEN r.pr
        ELSE [IdleCaller EXCEPT !.pc = IF r.pr.ff THEN "then" ELSE "idle",
                                !.ff = r.pr.ff]]

\* a continuation is ready to run, or a promise of the sync chain is about to settle.
\* In the mapped pipeline the promise of next() settles within microtasks, and so does
\* the optionalPromise of an absent result; a present one waits for its mapper, whose
\* end is a task of its own.
MicroEnabled ==
  \/ \E p \in Procs : caller[p].pc \in {"available", "race", "then"}
  \/ bcfg.kind = "mapped" /\ DOMAIN buffer.pending # {}
  \/ bcfg.kind = "mapped" /\ \E p \in Procs :
        /\ caller[p].pc = "isPresent"
        /\ caller[p].buffered.val \notin iterable.mapping

\* a macro step may run: the microtask queue is empty
TaskTurn == ~MicroEnabled

\* a free caller calls next()
Call(p) ==
  /\ bcfg.driver = "free"
  /\ caller[p].pc = "idle"
  /\ bhist.calls < MaxCalls
  /\ Commit(p, NextEntry(Now, caller[p]))
  /\ bhist' = [Returned(bhist, NextEntry(Now, caller[p])) EXCEPT
        !.calls = @ + 1,
        !.overlapped = (@ \/ \E q \in Procs \ {p} : caller[q].pc # "idle")]
  /\ UNCHANGED <<bcfg, nonBuffer>>

\* AsyncStream.findFirst calls next() once; its then-callback follows in FindFirstThen
FindFirst(p) ==
  /\ bcfg.driver = "findFirst"
  /\ p = 1
  /\ caller[p].pc = "idle"
  /\ bhist.calls = 0
  /\ Commit(p, NextEntry(Now, [caller[p] EXCEPT !.ff = TRUE]))
  /\ bhist' = [Returned(bhist, NextEntry(Now, caller[p])) EXCEPT !.calls = @ + 1]
  /\ UNCHANGED <<bcfg, nonBuffer>>

\* the then-callback of findFirst: this.asyncIterable.stop()
FindFirstThen(p) ==
  /\ caller[p].pc = "then"
  /\ buffer' = BufferStop(Now).buf
  /\ iterable' = BufferStop(Now).up
  /\ caller' = [caller EXCEPT ![p] = IdleCaller]
  /\ bhist' = [bhist EXCEPT !.stops = @ + 1]
  /\ UNCHANGED <<bcfg, nonBuffer>>

\* somebody downstream calls stop() on the buffer
Stop ==
  /\ bcfg.driver = "free"
  /\ bhist.stops < MaxStops
  /\ buffer' = BufferStop(Now).buf
  /\ iterable' = BufferStop(Now).up
  /\ bhist' = [bhist EXCEPT !.stops = @ + 1]
  /\ UNCHANGED <<bcfg, caller, nonBuffer>>

\* nextReadyOne: buffered.isPresent() has resolved, the mapper, if any, has finished; queueMore runs up to its sleep
IsPresentResolved(p) ==
  /\ caller[p].pc = "isPresent"
  /\ caller[p].buffered.val # Failure
  /\ bcfg.kind = "mapped" => caller[p].buffered.val \notin iterable.mapping
  /\ WithinBounds(QueueMore(Now))
  /\ buffer' = QueueMore(Now).buf
  /\ iterable' = QueueMore(Now).up
  /\ caller' = [caller EXCEPT ![p].pc = "sleepReady",
                              ![p].isPresent = (caller[p].buffered.val # Absent)]
  /\ UNCHANGED <<bcfg, bhist, nonBuffer>>

\* nextReadyOne: the sleep of queueMore is over; return buffered, or set stop and loop
SleepReady(p) ==
  /\ caller[p].pc = "sleepReady"
  /\ TaskTurn
  /\ LET r == IF caller[p].isPresent
              THEN [st |-> Now, pr |-> caller[p], ret |-> <<caller[p].buffered.val>>]
              ELSE NextReadyOneHead([Now EXCEPT !.buf.stop = TRUE],
                                    [caller[p] EXCEPT !.buffered = NoOpt])
     IN /\ Commit(p, r)
        /\ bhist' = Returned(bhist, r)
  /\ UNCHANGED <<bcfg, nonBuffer>>

\* next: nextReadyOne returned undefined; queueMore runs up to its sleep
Available(p) ==
  /\ caller[p].pc = "available"
  /\ WithinBounds(QueueMore(Now))
  /\ buffer' = QueueMore(Now).buf
  /\ iterable' = QueueMore(Now).up
  /\ caller' = [caller EXCEPT ![p].pc = "sleepNext"]
  /\ UNCHANGED <<bcfg, bhist, nonBuffer>>

\* next: the sleep of queueMore is over; race on pending.keys() or loop
SleepNext(p) ==
  /\ caller[p].pc = "sleepNext"
  /\ TaskTurn
  /\ LET r == IF DOMAIN buffer.pending # {}
              THEN [st |-> Now, pr |-> [caller[p] EXCEPT !.pc = "race"], ret |-> <<>>]
              ELSE NextLoopHead(Now, caller[p])
     IN /\ Commit(p, r)
        /\ bhist' = Returned(bhist, r)
  /\ UNCHANGED <<bcfg, nonBuffer>>

\* next: Promise.race(pending.keys()) resolves at once, its keys being numbers; loop
Race(p) ==
  /\ caller[p].pc = "race"
  /\ Commit(p, NextLoopHead(Now, caller[p]))
  /\ bhist' = Returned(bhist, NextLoopHead(Now, caller[p]))
  /\ UNCHANGED <<bcfg, nonBuffer>>

\* sequentialGeneratingIterable.next: a call waits in 'while (promises.length)' for the
\* calls before it, so the calls settle one after the other, in the order of the
\* generator's values
InTurn(b, i) == \A k \in DOMAIN b.pending : i <= k

\* mappedAsyncIterable.next with an async mapper: the mapper of a present element is
\* called as the promise of next() settles, and runs until MapperDone
StartMapper(up, v) ==
  IF bcfg.kind = "mapped" /\ v # Absent /\ v # Failure
  THEN [up EXCEPT !.mapping = @ \cup {v}]
  ELSE up

\* the then-callback of a fetch: pending.delete(nextIndex); ready.push(value).
\* A promise settled from a timer or from I/O has its callbacks run in the microtask
\* checkpoint of that task, hence not in the middle of another task's continuations.
Settle(i) ==
  /\ i \in DOMAIN buffer.pending
  /\ buffer.pending[i] = Failure => bcfg.failAt = "optional"
  /\ bcfg.kind # "mapped" => TaskTurn
  /\ bcfg.kind = "sequential" => InTurn(buffer, i)
  /\ buffer' = [buffer EXCEPT
        !.pending = [k \in DOMAIN buffer.pending \ {i} |-> buffer.pending[k]],
        !.ready = Append(@, [val |-> buffer.pending[i]])]
  /\ iterable' = StartMapper(iterable, buffer.pending[i])
  /\ UNCHANGED <<bcfg, caller, bhist, nonBuffer>>

\* the task of an async mapper ends (its sleep is over): the promise of the mapped
\* AsyncOptional resolves, whenever that is
MapperDone(v) ==
  /\ v \in iterable.mapping
  /\ TaskTurn
  /\ iterable' = [iterable EXCEPT !.mapping = @ \ {v}]
  /\ UNCHANGED <<bcfg, buffer, caller, bhist, nonBuffer>>

\* the promise of a fetch rejects: the then-callback of queueMore does not run, the
\* promise derived by then() rejects, and nothing awaits it
Reject(i) ==
  /\ i \in DOMAIN buffer.pending
  /\ buffer.pending[i] = Failure
  /\ bcfg.failAt = "next"
  /\ i \notin bhist.rejected
  /\ TaskTurn
  /\ bhist' = [bhist EXCEPT !.rejected = @ \cup {i}]
  /\ UNCHANGED <<bcfg, iterable, buffer, caller, nonBuffer>>

\* nextReadyOne: 'await buffered.isPresent()' throws, and so does the call of next()
IsPresentRejected(p) ==
  /\ caller[p].pc = "isPresent"
  /\ caller[p].buffered.val = Failure
  /\ TaskTurn
  /\ caller' = [caller EXCEPT ![p] = IdleCaller]
  /\ bhist' = [bhist EXCEPT !.errors = @ + 1]
  /\ UNCHANGED <<bcfg, iterable, buffer, nonBuffer>>

NextBuffer ==
  \/ \E p \in Procs : Call(p)
  \/ \E p \in Procs : FindFirst(p)
  \/ \E p \in Procs : FindFirstThen(p)
  \/ Stop
  \/ \E p \in Procs : IsPresentResolved(p)
  \/ \E p \in Procs : SleepReady(p)
  \/ \E p \in Procs : Available(p)
  \/ \E p \in Procs : SleepNext(p)
  \/ \E p \in Procs : Race(p)
  \/ \E i \in DOMAIN buffer.pending : Settle(i)

\* the buffer, and the tasks of the async mapper of a mapped upstream
NextMappedBuffer ==
  \/ NextBuffer
  \/ \E v \in iterable.mapping : MapperDone(v)

\* the buffer over an upstream that fails
NextBufferFail ==
  \/ NextBuffer
  \/ \E i \in DOMAIN buffer.pending : Reject(i)
  \/ \E p \in Procs : IsPresentRejected(p)


\* ------------------------------------------------------- limitingIterable

Pullers == 1..MaxPulls

IdlePuller == [pc |-> "idle", nextItem |-> Absent]

LimitCfgs == [len : 0..MaxLen, max : 0..MaxMax]

LimitInit ==
  /\ lcfg \in LimitCfgs
  /\ source = [pos |-> 0, calls |-> 0, stops |-> 0]
  /\ limit = [stop |-> FALSE, count |-> 0]
  /\ puller = [p \in Pullers |-> IdlePuller]
  /\ lhist = [results |-> <<>>, calls |-> 0, overlapped |-> FALSE, stops |-> 0]

\* the limit is not in use
LimitParked ==
  /\ lcfg = [len |-> 0, max |-> 0]
  /\ source = [pos |-> 0, calls |-> 0, stops |-> 0]
  /\ limit = [stop |-> FALSE, count |-> 0]
  /\ puller = [p \in Pullers |-> IdlePuller]
  /\ lhist = [results |-> <<>>, calls |-> 0, overlapped |-> FALSE, stops |-> 0]

\* the buffer is not in use
BufferParked ==
  /\ bcfg = [kind |-> "generic", len |-> 0, size |-> 1, driver |-> "free",
             fails |-> {}, failAt |-> "next"]
  /\ iterable = [pos |-> 0, calls |-> 0, stops |-> 0, mapping |-> {}]
  /\ buffer = [stop |-> FALSE, pending |-> <<>>, ready |-> <<>>, index |-> 0]
  /\ caller = [p \in Procs |-> IdleCaller]
  /\ bhist = NoHistory

\* the re-check after the await, left out
RecheckSkipped(l) == TRUE

\* the re-check after the await without its look at the stop flag
RecheckCountOnly(l) == l.count < lcfg.max

\* 'count < max && !stop' after the await: another call may have taken the last place
Recheck(l) == l.count < lcfg.max /\ ~l.stop

\* the increment of the committed counter, forgotten
CommitForgotten(l) == l

\* count++
CommitOne(l) == [l EXCEPT !.count = @ + 1]

\* the call of source.stop(), forgotten
SourceStopForgotten(src) == src

\* source.stop()
SourceStop(src) == [src EXCEPT !.stops = @ + 1]

\* next of the limit from its call to 'await source.next()', or to its early return
LimitNextEntry(l, src, pr) ==
  IF l.stop
  THEN [limit |-> l, source |-> src, pr |-> pr, ret |-> <<Absent>>]
  ELSE IF l.count >= lcfg.max
  THEN [limit |-> [l EXCEPT !.stop = TRUE],
        source |-> SourceStop(src),
        pr |-> pr, ret |-> <<Absent>>]
  ELSE [limit |-> l,
        source |-> [src EXCEPT !.pos = IF @ < lcfg.len THEN @ + 1 ELSE @,
                               !.calls = @ + 1],
        pr |-> [pr EXCEPT !.pc = "awaitSource",
                          !.nextItem = IF src.pos < lcfg.len THEN src.pos + 1 ELSE Absent],
        ret |-> <<>>]

\* next of the limit after 'await source.next()'
LimitNextResume(l, pr) ==
  IF Recheck(l)
  THEN [limit |-> CommitOne(l), ret |-> <<pr.nextItem>>]
  ELSE [limit |-> l, ret |-> <<Absent>>]

\* somebody calls next() on the limit
Pull(p) ==
  /\ puller[p].pc = "idle"
  /\ lhist.calls < MaxLimitCalls
  /\ LET r == LimitNextEntry(limit, source, puller[p])
     IN /\ limit' = r.limit
        /\ source' = r.source
        /\ puller' = [puller EXCEPT ![p] = IF r.ret = <<>> THEN r.pr ELSE IdlePuller]
        /\ lhist' = [lhist EXCEPT
              !.results = @ \o r.ret,
              !.calls = @ + 1,
              !.overlapped = (@ \/ \E q \in Pullers \ {p} : puller[q].pc # "idle")]
  /\ UNCHANGED <<lcfg, nonLimit>>

\* the source's next() has settled for call p, in whatever order the source settles them
PullResume(p) ==
  /\ puller[p].pc = "awaitSource"
  /\ LET r == LimitNextResume(limit, puller[p])
     IN /\ limit' = r.limit
        /\ puller' = [puller EXCEPT ![p] = IdlePuller]
        /\ lhist' = [lhist EXCEPT !.results = @ \o r.ret]
  /\ UNCHANGED <<lcfg, source, nonLimit>>

\* somebody calls stop() on the limit: source.stop(); stop = true
LimitStop ==
  /\ lhist.stops < MaxStops
  /\ source' = SourceStop(source)
  /\ limit' = [limit EXCEPT !.stop = TRUE]
  /\ lhist' = [lhist EXCEPT !.stops = @ + 1]
  /\ UNCHANGED <<lcfg, puller, nonLimit>>

NextLimit ==
  \/ \E p \in Pullers : Pull(p)
  \/ \E p \in Pullers : PullResume(p)
  \/ LimitStop

\* ------------------------------------------------------------ AsyncStream

TerminalOps ==
  {"toArray", "count", "collect", "findFirst", "findFirstWith", "anyMatch", "noneMatch",
   "allMatch", "getIterable"}

Combinators ==
  {"map", "filter", "flatMap", "transform", "buffer", "indexed", "sorted", "distinct"}

\* the terminal operations that run filter(predicate).findFirst()
Matching == {"findFirstWith", "anyMatch", "noneMatch", "allMatch"}

Collecting == {"toArray", "count", "collect"}

StreamCfgs == {c \in [len : 0..MaxLen, accepts : SUBSET (1..MaxLen)] : c.accepts \subseteq 1..c.len}

NoOperation == [name |-> "none", pc |-> "idle", result |-> Absent, collected |-> <<>>]

NoCall == [op |-> "none", outcome |-> "ok"]

StreamInit ==
  /\ scfg \in StreamCfgs
  /\ stream = [hasTerminated |-> FALSE]
  /\ asyncIterable = [pos |-> 0, calls |-> 0, stops |-> 0, promise |-> <<>>]
  /\ operation = NoOperation
  /\ shist = [ncalls |-> 0, terminals |-> 0, derived |-> 0, last |-> NoCall]

\* the stream is not in use
StreamParked ==
  /\ scfg = [len |-> 0, accepts |-> {}]
  /\ stream = [hasTerminated |-> FALSE]
  /\ asyncIterable = [pos |-> 0, calls |-> 0, stops |-> 0, promise |-> <<>>]
  /\ operation = NoOperation
  /\ shist = [ncalls |-> 0, terminals |-> 0, derived |-> 0, last |-> NoCall]

\* this.asyncIterable.next(): the source element is taken, the promise is pending
IterNext(it) ==
  [it EXCEPT !.pos = IF @ < scfg.len THEN @ + 1 ELSE @,
             !.calls = @ + 1,
             !.promise = <<IF it.pos < scfg.len THEN it.pos + 1 ELSE Absent>>]

\* the then-callback of findFirst, without its call of stop()
ThenWithoutStop(it) == it

\* the then-callback of findFirst: this.asyncIterable.stop()
ThenStop(it) == [it EXCEPT !.stops = @ + 1]

\* terminal() that forgets to set hasTerminated
MarkTerminatedForgotten(st) == st

\* terminal(): this.hasTerminated = true
MarkTerminated(st) == [st EXCEPT !.hasTerminated = TRUE]

\* a combinator that goes through terminal(), as a terminal operation does
DeriveTerminating(st) == [st EXCEPT !.hasTerminated = TRUE]

\* filter, map, flatMap, transform, buffer: a new AsyncStream over a new iterable
\* that holds this.asyncIterable; this stream is not written
Derive(st) == st

\* a predicate that lets every value through
AcceptsAnything(name, v) == TRUE

\* the predicate the operation filters with; allMatch negates the caller's
Accepts(name, v) == IF name = "allMatch" THEN v \notin scfg.accepts ELSE v \in scfg.accepts

\* a terminal operation is called: terminal() throws on a terminated stream; otherwise
\* it marks the stream and runs the operation, which for findFirst and for the
\* operations built on filter(predicate).findFirst() calls next() at once
Terminal(o) ==
  /\ shist.ncalls < MaxOps
  /\ IF stream.hasTerminated
     THEN /\ shist' = [shist EXCEPT !.ncalls = @ + 1, !.terminals = @ + 1,
                                    !.last = [op |-> o, outcome |-> "error"]]
          /\ UNCHANGED <<stream, asyncIterable, operation>>
     ELSE /\ stream' = MarkTerminated(stream)
          /\ asyncIterable' = IF o \in Matching \cup {"findFirst"}
                              THEN IterNext(asyncIterable)
                              ELSE asyncIterable
          /\ operation' = [NoOperation EXCEPT
                !.name = o,
                !.pc = IF o = "getIterable" THEN "done"
                       ELSE IF o \in Collecting THEN "start"
                       ELSE "await"]
          /\ shist' = [shist EXCEPT
                !.ncalls = @ + 1, !.terminals = @ + 1,
                !.derived = IF o \in Matching THEN @ + 1 ELSE @,
                !.last = [op |-> o, outcome |-> "ok"]]
  /\ UNCHANGED <<scfg, nonStream>>

\* a non-terminal combinator is called
Combinator(c) ==
  /\ shist.ncalls < MaxOps
  /\ stream' = Derive(stream)
  /\ shist' = [shist EXCEPT !.ncalls = @ + 1, !.derived = @ + 1,
                            !.last = [op |-> c, outcome |-> "ok"]]
  /\ UNCHANGED <<scfg, asyncIterable, operation, nonStream>>

\* the promise of next() resolves for findFirst(): stop, then hand the item on
FindFirstResolved ==
  /\ operation.name = "findFirst"
  /\ operation.pc = "await"
  /\ asyncIterable' = [ThenStop(asyncIterable) EXCEPT !.promise = <<>>]
  /\ operation' = [operation EXCEPT !.pc = "done", !.result = asyncIterable.promise[1]]
  /\ UNCHANGED <<scfg, stream, shist, nonStream>>

\* the promise of next() resolves inside filteredAsyncIterable.next, called by the
\* findFirst of filter(predicate): absent or accepted ends it and the then-callback
\* stops the filter, which stops the iterable; otherwise the filter pulls again
MatchResolved ==
  /\ operation.name \in Matching
  /\ operation.pc = "await"
  /\ LET v == asyncIterable.promise[1]
     IN IF v = Absent \/ Accepts(operation.name, v)
        THEN /\ asyncIterable' = [ThenStop(asyncIterable) EXCEPT !.promise = <<>>]
             /\ operation' = [operation EXCEPT !.pc = "done", !.result = v]
        ELSE /\ asyncIterable' = IterNext(asyncIterable)
             /\ UNCHANGED operation
  /\ UNCHANGED <<scfg, stream, shist, nonStream>>

\* collectAsync(this.asyncIterable, collector): it pulls from the iterable one item
\* after the other, accumulates the present ones and finishes on the first absent
CollectAsync ==
  /\ operation.name \in Collecting
  /\ \/ /\ operation.pc = "start"
        /\ asyncIterable' = IterNext(asyncIterable)
        /\ operation' = [operation EXCEPT !.pc = "await"]
     \/ /\ operation.pc = "await"
        /\ asyncIterable.promise[1] = Absent
        /\ asyncIterable' = [asyncIterable EXCEPT !.promise = <<>>]
        /\ operation' = [operation EXCEPT !.pc = "done"]
     \/ /\ operation.pc = "await"
        /\ asyncIterable.promise[1] # Absent
        /\ asyncIterable' = IterNext(asyncIterable)
        /\ operation' = [operation EXCEPT !.collected = Append(@, asyncIterable.promise[1])]
  /\ UNCHANGED <<scfg, stream, shist, nonStream>>

NextStream ==
  \/ \E o \in TerminalOps : Terminal(o)
  \/ \E c \in Combinators : Combinator(c)
  \/ FindFirstResolved
  \/ MatchResolved
  \/ CollectAsync

\* ------------------------------------------------------ chains and stop()

Kinds == {"filter", "map", "flatMap", "transform", "limit", "buffer"}

ChainInit ==
  /\ chain = <<>>
  /\ stopped = <<>>
  /\ stopCalls = [i \in {0} |-> 0]

ChainParked == ChainInit

\* stop() arrives at level i: counted, whatever the level does with it
Arrive(st, i) == [st EXCEPT !.stopCalls[i] = @ + 1]

\* the combinator at level i sets its flag: stopped, done or stop
SetFlag(st, i) == [st EXCEPT !.stopped[i] = TRUE]

RECURSIVE StopLevel(_, _)

\* a mapped iterable whose stop does nothing
MappedStopNoop(st, i) == st

\* mappedAsyncIterable: 'stop: iterable.stop', the upstream's own stop
MappedStop(st, i) == StopLevel(st, i - 1)

\* filteredAsyncIterable.stop: stopped = true; iterable.stop()
FilteredStop(st, i) == StopLevel(SetFlag(st, i), i - 1)

\* flatMappedAsyncIterable.stop: done = true; iterable.stop()
FlatMappedStop(st, i) == StopLevel(SetFlag(st, i), i - 1)

\* transformingAsyncIterable.stop: stop = true; iterable.stop()
TransformingStop(st, i) == StopLevel(SetFlag(st, i), i - 1)

\* limitingIterable.stop: source.stop(); stop = true
LimitingStop(st, i) == SetFlag(StopLevel(st, i - 1), i)

\* bufferingIterable.stop: stop = true; iterable.stop()
BufferingStop(st, i) == StopLevel(SetFlag(st, i), i - 1)

\* stop() called on level i; level 0 is iterableToAsync, whose stop is noop
StopLevel(st, i) ==
  IF i = 0 THEN Arrive(st, 0)
  ELSE CASE st.chain[i] = "map"       -> MappedStop(Arrive(st, i), i)
         [] st.chain[i] = "filter"    -> FilteredStop(Arrive(st, i), i)
         [] st.chain[i] = "flatMap"   -> FlatMappedStop(Arrive(st, i), i)
         [] st.chain[i] = "transform" -> TransformingStop(Arrive(st, i), i)
         [] st.chain[i] = "limit"     -> LimitingStop(Arrive(st, i), i)
         [] st.chain[i] = "buffer"    -> BufferingStop(Arrive(st, i), i)

ChainNow == [chain |-> chain, stopped |-> stopped, stopCalls |-> stopCalls]

\* a combinator of kind k is put around the chain
Wrap(k) ==
  /\ Len(chain) < MaxChain
  /\ chain' = Append(chain, k)
  /\ stopped' = Append(stopped, FALSE)
  /\ stopCalls' = [i \in 0..Len(chain) + 1 |-> IF i <= Len(chain) THEN stopCalls[i] ELSE 0]
  /\ UNCHANGED nonChain

\* stop() is called on the combinator at level i
StopAt(i) ==
  /\ i \in 1..Len(chain)
  /\ stopCalls[i] < MaxStops
  /\ chain' = chain
  /\ stopped' = StopLevel(ChainNow, i).stopped
  /\ stopCalls' = StopLevel(ChainNow, i).stopCalls
  /\ UNCHANGED nonChain

NextChain ==
  \/ \E k \in Kinds : Wrap(k)
  \/ \E i \in 1..MaxChain : StopAt(i)

\* ------------------------------------------------------- specifications

\* ------------------------------- iterableToAsync and filteredAsyncIterable

PipeKinds == {"source", "filtered"}

\* the predicate of a filter accepts a set of values; a bare source has no predicate
PipeCfgs ==
  [kind : {"source"}, len : 0..MaxLen, accepts : {1..MaxLen}]
    \cup [kind : {"filtered"}, len : 0..MaxLen, accepts : SUBSET (1..MaxLen)]

IdleTaker == [pc |-> "idle", next |-> Absent, late |-> FALSE]

PipeInit ==
  /\ pcfg \in PipeCfgs
  /\ upstream = [pos |-> 0, calls |-> 0]
  /\ filtered = [stopped |-> FALSE]
  /\ taker = [p \in Procs |-> IdleTaker]
  /\ phist = [early |-> <<>>, late |-> <<>>, calls |-> 0, stops |-> 0, latePulls |-> 0,
              overlapped |-> FALSE]

\* neither a source nor a filter is in use
PipeParked ==
  /\ pcfg = [kind |-> "source", len |-> 0, accepts |-> 1..MaxLen]
  /\ upstream = [pos |-> 0, calls |-> 0]
  /\ filtered = [stopped |-> FALSE]
  /\ taker = [p \in Procs |-> IdleTaker]
  /\ phist = [early |-> <<>>, late |-> <<>>, calls |-> 0, stops |-> 0, latePulls |-> 0,
              overlapped |-> FALSE]

\* a stop method that ends the source
StopExhausts(up) == [up EXCEPT !.pos = pcfg.len]

\* the stop method of the sources: nothing happens
Noop(up) == up

\* iterableToAsync.next: hasNext() and getNext() on the synchronous source
IterableToAsyncNext(up) ==
  [up  |-> [up EXCEPT !.pos = IF @ < pcfg.len THEN @ + 1 ELSE @, !.calls = @ + 1],
   val |-> IF up.pos < pcfg.len THEN up.pos + 1 ELSE Absent]

\* the loop of the filter without its test of stopped
FilterLoopUnstopped(f, up, pr) ==
  [up  |-> IterableToAsyncNext(up).up,
   pr  |-> [pr EXCEPT !.pc = "awaitNext", !.next = IterableToAsyncNext(up).val],
   ret |-> <<>>]

\* the loop of the filter: its test, then iterable.next() up to the await
FilterLoop(f, up, pr) ==
  IF f.stopped
  THEN [up |-> up, pr |-> pr, ret |-> <<Absent>>]
  ELSE [up  |-> IterableToAsyncNext(up).up,
        pr  |-> [pr EXCEPT !.pc = "awaitNext", !.next = IterableToAsyncNext(up).val],
        ret |-> <<>>]

\* next() of the source, or next() of the filter up to its first await
PipeNextEntry(f, up, pr) ==
  IF pcfg.kind = "source"
  THEN [up |-> IterableToAsyncNext(up).up, pr |-> pr, ret |-> <<IterableToAsyncNext(up).val>>]
  ELSE FilterLoop(f, up, pr)

\* a step of taker p ends in r; the result of a call made after stop() is kept apart
PipeCommit(p, r, started) ==
  /\ upstream' = r.up
  /\ taker' = [taker EXCEPT ![p] = IF r.ret = <<>> THEN r.pr ELSE IdleTaker]
  /\ phist' = [phist EXCEPT
        !.calls = @ + started,
        !.overlapped = (@ \/ (started = 1 /\ \E q \in Procs \ {p} : taker[q].pc # "idle")),
        !.early = IF r.pr.late THEN @ ELSE @ \o r.ret,
        !.late = IF r.pr.late THEN @ \o r.ret ELSE @,
        !.latePulls = IF r.pr.late THEN @ + (r.up.calls - upstream.calls) ELSE @]

\* somebody calls next() on the source or on the filter
PipeCall(p) ==
  /\ taker[p].pc = "idle"
  /\ phist.calls < MaxCalls
  /\ PipeCommit(p, PipeNextEntry(filtered, upstream,
                                 [taker[p] EXCEPT !.late = phist.stops > 0]), 1)
  /\ UNCHANGED <<pcfg, filtered, nonPipe>>

\* the filter: 'await (await iterable.next()).toOptional()' is over
PipeNextResolved(p) ==
  /\ taker[p].pc = "awaitNext"
  /\ PipeCommit(p, IF taker[p].next = Absent
                   THEN [up |-> upstream, pr |-> taker[p], ret |-> <<Absent>>]
                   ELSE [up |-> upstream, pr |-> [taker[p] EXCEPT !.pc = "awaitFilter"],
                         ret |-> <<>>], 0)
  /\ UNCHANGED <<pcfg, filtered, nonPipe>>

\* the filter that reports absent when a value fails the predicate
PipeFilterResolvedGivingUp(p) ==
  /\ taker[p].pc = "awaitFilter"
  /\ PipeCommit(p, [up |-> upstream, pr |-> taker[p],
                    ret |-> <<IF taker[p].next \in pcfg.accepts
                              THEN taker[p].next ELSE Absent>>], 0)
  /\ UNCHANGED <<pcfg, filtered, nonPipe>>

\* the filter: 'await next.filterAsync(predicate)' is over; return the value or loop
PipeFilterResolved(p) ==
  /\ taker[p].pc = "awaitFilter"
  /\ PipeCommit(p, IF taker[p].next \in pcfg.accepts
                   THEN [up |-> upstream, pr |-> taker[p], ret |-> <<taker[p].next>>]
                   ELSE FilterLoop(filtered, upstream, taker[p]), 0)
  /\ UNCHANGED <<pcfg, filtered, nonPipe>>

\* somebody calls stop(): the filter sets stopped and calls stop() of its source
PipeStop ==
  /\ phist.stops < MaxStops
  /\ filtered' = IF pcfg.kind = "filtered" THEN [filtered EXCEPT !.stopped = TRUE] ELSE filtered
  /\ upstream' = Noop(upstream)
  /\ phist' = [phist EXCEPT !.stops = @ + 1]
  /\ UNCHANGED <<pcfg, taker, nonPipe>>

NextPipe ==
  \/ \E p \in Procs : PipeCall(p)
  \/ \E p \in Procs : PipeNextResolved(p)
  \/ \E p \in Procs : PipeFilterResolved(p)
  \/ PipeStop

\* ---------------------------- transformingAsyncIterable, Transformers.batch

TransformCfgs == [len : 0..MaxItems, size : 1..MaxBatch]

\* 'let accumulator: A | undefined'
Undefined == [defined |-> FALSE, a |-> <<>>]

IdleTCaller == [pc |-> "idle", nextValue |-> Absent]

TransformInit ==
  /\ tcfg \in TransformCfgs
  /\ tsource = [pos |-> 0, calls |-> 0, stops |-> 0]
  /\ transforming = [stop |-> FALSE, accumulator |-> Undefined]
  /\ tcaller = [p \in Procs |-> IdleTCaller]
  /\ thist = [batches |-> <<>>, absents |-> 0, errors |-> 0, calls |-> 0,
              overlapped |-> FALSE, stops |-> 0, finisherCalls |-> 0]

\* the transforming iterable is not in use
TransformParked ==
  /\ tcfg = [len |-> 0, size |-> 1]
  /\ tsource = [pos |-> 0, calls |-> 0, stops |-> 0]
  /\ transforming = [stop |-> FALSE, accumulator |-> Undefined]
  /\ tcaller = [p \in Procs |-> IdleTCaller]
  /\ thist = [batches |-> <<>>, absents |-> 0, errors |-> 0, calls |-> 0,
              overlapped |-> FALSE, stops |-> 0, finisherCalls |-> 0]

\* batch.supplier: () => []
Supplier == [defined |-> TRUE, a |-> <<>>]

\* the results of a call: a batch, absent, or the TypeError of a.push on undefined
Batch(a) == [kind |-> "present", batch |-> a]

NoBatch == [kind |-> "absent", batch |-> <<>>]

TypeError == [kind |-> "error", batch |-> <<>>]

\* batch.transformer with 'a.length > size'
BatchTransformerOneMore(acc, t) ==
  IF ~acc.defined
  THEN [acc |-> acc, clearState |-> FALSE, value |-> TypeError]
  ELSE IF Len(acc.a) + 1 > tcfg.size
  THEN [acc |-> [acc EXCEPT !.a = Append(@, t)], clearState |-> TRUE,
        value |-> Batch(Append(acc.a, t))]
  ELSE [acc |-> [acc EXCEPT !.a = Append(@, t)], clearState |-> FALSE, value |-> NoBatch]

\* batch.transformer: a.push(t); the batch when a.length >= size, with clearState
BatchTransformer(acc, t) ==
  IF ~acc.defined
  THEN [acc |-> acc, clearState |-> FALSE, value |-> TypeError]
  ELSE IF Len(acc.a) + 1 >= tcfg.size
  THEN [acc |-> [acc EXCEPT !.a = Append(@, t)], clearState |-> TRUE,
        value |-> Batch(Append(acc.a, t))]
  ELSE [acc |-> [acc EXCEPT !.a = Append(@, t)], clearState |-> FALSE, value |-> NoBatch]

\* batch.finisher: Optional.of(a).filter((a) => a.length > 0)
Finisher(acc) == IF acc.defined /\ Len(acc.a) > 0 THEN Batch(acc.a) ELSE NoBatch

\* the loop test of next, then iterable.next() up to the await, or the final 'return empty'
TransformLoop(t, src, pr) ==
  IF t.stop
  THEN [t |-> t, src |-> src, pr |-> pr, ret |-> <<NoBatch>>, fin |-> 0]
  ELSE [t   |-> t,
        src |-> [src EXCEPT !.pos = IF @ < tcfg.len THEN @ + 1 ELSE @, !.calls = @ + 1],
        pr  |-> [pr EXCEPT !.pc = "awaitNext",
                           !.nextValue = IF src.pos < tcfg.len THEN src.pos + 1 ELSE Absent],
        ret |-> <<>>, fin |-> 0]

\* next from its call: 'accumulator = accumulator ?? transformer.supplier()', then the loop
TransformNextEntry(t, src, pr) ==
  TransformLoop([t EXCEPT !.accumulator = IF @.defined THEN @ ELSE Supplier], src, pr)

\* after 'await nextValue.isPresent()' of an absent value: stop = true, the finisher
TransformFinish(t, src, pr) ==
  [t |-> [t EXCEPT !.stop = TRUE], src |-> src, pr |-> pr,
   ret |-> <<Finisher(t.accumulator)>>, fin |-> 1]

\* after 'await nextValue.get()': the transformer, then return its value or loop
TransformFold(t, src, pr) ==
  LET transformed == BatchTransformer(t.accumulator, pr.nextValue)
  IN IF transformed.value.kind = "error"
     THEN [t |-> t, src |-> src, pr |-> pr, ret |-> <<TypeError>>, fin |-> 0]
     ELSE IF transformed.value.kind = "present"
     THEN [t |-> [t EXCEPT !.accumulator =
                     IF transformed.clearState THEN Undefined ELSE transformed.acc],
           src |-> src, pr |-> pr, ret |-> <<transformed.value>>, fin |-> 0]
     ELSE TransformLoop([t EXCEPT !.accumulator = transformed.acc], src, pr)

\* a step of caller p ends in r
TransformCommit(p, r) ==
  /\ transforming' = r.t
  /\ tsource' = r.src
  /\ tcaller' = [tcaller EXCEPT ![p] = IF r.ret = <<>> THEN r.pr ELSE IdleTCaller]

\* what the step returned, and whether it called the finisher
TransformReturned(h, r) ==
  [h EXCEPT
     !.finisherCalls = @ + r.fin,
     !.batches = IF r.ret # <<>> /\ r.ret[1].kind = "present" THEN Append(@, r.ret[1].batch) ELSE @,
     !.absents = IF r.ret # <<>> /\ r.ret[1].kind = "absent" THEN @ + 1 ELSE @,
     !.errors = IF r.ret # <<>> /\ r.ret[1].kind = "error" THEN @ + 1 ELSE @]

\* somebody calls next() on the transforming iterable
TransformCall(p) ==
  /\ tcaller[p].pc = "idle"
  /\ thist.calls < MaxTCalls
  /\ TransformCommit(p, TransformNextEntry(transforming, tsource, tcaller[p]))
  /\ thist' = [TransformReturned(thist, TransformNextEntry(transforming, tsource, tcaller[p]))
        EXCEPT !.calls = @ + 1,
               !.overlapped = (@ \/ \E q \in Procs \ {p} : tcaller[q].pc # "idle")]
  /\ UNCHANGED <<tcfg, nonTransform>>

\* 'await iterable.next()' is over; nextValue.isPresent() is awaited
TransformNextResolved(p) ==
  /\ tcaller[p].pc = "awaitNext"
  /\ tcaller' = [tcaller EXCEPT ![p].pc = "awaitIsPresent"]
  /\ UNCHANGED <<tcfg, tsource, transforming, thist, nonTransform>>

\* 'await nextValue.isPresent()' is over: await get(), or finish
TransformIsPresentResolved(p) ==
  /\ tcaller[p].pc = "awaitIsPresent"
  /\ LET r == IF tcaller[p].nextValue # Absent
              THEN [t |-> transforming, src |-> tsource,
                    pr |-> [tcaller[p] EXCEPT !.pc = "awaitGet"], ret |-> <<>>, fin |-> 0]
              ELSE TransformFinish(transforming, tsource, tcaller[p])
     IN /\ TransformCommit(p, r)
        /\ thist' = TransformReturned(thist, r)
  /\ UNCHANGED <<tcfg, nonTransform>>

\* 'await nextValue.get()' is over: the transformer runs
TransformGetResolved(p) ==
  /\ tcaller[p].pc = "awaitGet"
  /\ TransformCommit(p, TransformFold(transforming, tsource, tcaller[p]))
  /\ thist' = TransformReturned(thist, TransformFold(transforming, tsource, tcaller[p]))
  /\ UNCHANGED <<tcfg, nonTransform>>

\* somebody calls stop() on the transforming iterable
TransformStop ==
  /\ thist.stops < MaxStops
  /\ transforming' = [transforming EXCEPT !.stop = TRUE]
  /\ tsource' = [tsource EXCEPT !.stops = @ + 1]
  /\ thist' = [thist EXCEPT !.stops = @ + 1]
  /\ UNCHANGED <<tcfg, tcaller, nonTransform>>

NextTransform ==
  \/ \E p \in Procs : TransformCall(p)
  \/ \E p \in Procs : TransformNextResolved(p)
  \/ \E p \in Procs : TransformIsPresentResolved(p)
  \/ \E p \in Procs : TransformGetResolved(p)
  \/ TransformStop

\* ------------------------------------------------- flatMappedAsyncIterable

\* the mapper turns upstream element i into an inner stream of lens[i] elements
FlatCfgs == UNION {[1..n -> 0..MaxInner] : n \in 0..MaxOuter}

\* an inner iterable is named by the upstream element it was mapped from
InnerIds == 0..MaxOuter

\* the results of next(): element j of inner stream i is <<i, j>>
NoElement == <<>>

IdleFCaller == [pc |-> "idle", thisBatch |-> 0, next |-> NoElement, nextIterable |-> Absent]

FlatInit ==
  /\ fcfg \in FlatCfgs
  /\ fsource = [pos |-> 0, calls |-> 0, stops |-> 0]
  /\ inner = [i \in InnerIds |-> 0]
  /\ flat = [done |-> FALSE, availableIterables |-> <<0>>, awaiting |-> 0]
  /\ fcaller = [p \in Procs |-> IdleFCaller]
  /\ fhist = [delivered |-> <<>>, absents |-> 0, calls |-> 0, overlapped |-> FALSE, stops |-> 0]

\* the flat-mapping iterable is not in use
FlatParked ==
  /\ fcfg = <<>>
  /\ fsource = [pos |-> 0, calls |-> 0, stops |-> 0]
  /\ inner = [i \in InnerIds |-> 0]
  /\ flat = [done |-> FALSE, availableIterables |-> <<0>>, awaiting |-> 0]
  /\ fcaller = [p \in Procs |-> IdleFCaller]
  /\ fhist = [delivered |-> <<>>, absents |-> 0, calls |-> 0, overlapped |-> FALSE, stops |-> 0]

\* the length of inner iterable b; emptyAsyncIterable has no element
InnerLen(b) == IF b = 0 THEN 0 ELSE fcfg[b]

FlatNow == [flat |-> flat, src |-> fsource, inner |-> inner]

\* the loop test of next; then thisBatch.next() up to the await, or the sleep
FlatLoop(st, pr) ==
  IF ~st.flat.done /\ (st.flat.awaiting # 0 \/ st.flat.availableIterables # <<>>)
  THEN IF st.flat.availableIterables # <<>>
       THEN LET b == st.flat.availableIterables[1]
            IN [st  |-> [st EXCEPT !.inner[b] = IF @ < InnerLen(b) THEN @ + 1 ELSE @],
                pr  |-> [pr EXCEPT !.pc = "awaitBatch",
                                   !.thisBatch = b,
                                   !.next = IF st.inner[b] < InnerLen(b)
                                            THEN <<b, st.inner[b] + 1>> ELSE NoElement],
                ret |-> <<>>]
       ELSE [st |-> st, pr |-> [pr EXCEPT !.pc = "sleep"], ret |-> <<>>]
  ELSE [st |-> st, pr |-> pr, ret |-> <<NoElement>>]

\* 'if (!availableIterables.length)': awaiting++ and iterable.next() up to the await
FlatFetch(st, pr) ==
  IF st.flat.availableIterables = <<>>
  THEN [st  |-> [st EXCEPT !.flat.awaiting = @ + 1,
                           !.src.pos = IF @ < Len(fcfg) THEN @ + 1 ELSE @,
                           !.src.calls = @ + 1],
        pr  |-> [pr EXCEPT !.pc = "awaitUpstream",
                           !.nextIterable = IF st.src.pos < Len(fcfg)
                                            THEN st.src.pos + 1 ELSE Absent],
        ret |-> <<>>]
  ELSE FlatLoop(st, pr)

\* an inner stream that is used up ends the whole stream
BatchUsedUpEndsAll(st, pr) == [st |-> st, pr |-> pr, ret |-> <<NoElement>>]

\* the first batch is removed without the test that it still is this batch
BatchUsedUpShiftAlways(st, pr) ==
  FlatFetch([st EXCEPT !.flat.availableIterables = IF @ # <<>> THEN Tail(@) ELSE @], pr)

\* this batch is used up: remove it if it still is the first, then fetch or loop
BatchUsedUp(st, pr) ==
  FlatFetch([st EXCEPT !.flat.availableIterables =
               IF @ # <<>> /\ @[1] = pr.thisBatch THEN Tail(@) ELSE @], pr)

\* the model follows the upstream up to MaxSpare calls beyond the end of the source
FlatWithinBounds(st) == st.src.calls <= Len(fcfg) + MaxSpare

\* a step of caller p ends in r
FlatCommit(p, r) ==
  /\ FlatWithinBounds(r.st)
  /\ flat' = r.st.flat
  /\ fsource' = r.st.src
  /\ inner' = r.st.inner
  /\ fcaller' = [fcaller EXCEPT ![p] = IF r.ret = <<>> THEN r.pr ELSE IdleFCaller]

\* what the step returned
FlatReturned(h, r) ==
  [h EXCEPT
     !.delivered = IF r.ret # <<>> /\ r.ret[1] # NoElement THEN Append(@, r.ret[1]) ELSE @,
     !.absents = IF r.ret # <<>> /\ r.ret[1] = NoElement THEN @ + 1 ELSE @]

\* somebody calls next() on the flat-mapping iterable
FlatCall(p) ==
  /\ fcaller[p].pc = "idle"
  /\ fhist.calls < MaxFCalls
  /\ FlatCommit(p, FlatLoop(FlatNow, fcaller[p]))
  /\ fhist' = [FlatReturned(fhist, FlatLoop(FlatNow, fcaller[p])) EXCEPT
        !.calls = @ + 1,
        !.overlapped = (@ \/ \E q \in Procs \ {p} : fcaller[q].pc # "idle")]
  /\ UNCHANGED <<fcfg, nonFlat>>

\* 'await thisBatch.next()' is over; next.isPresent() is awaited
FlatBatchResolved(p) ==
  /\ fcaller[p].pc = "awaitBatch"
  /\ fcaller' = [fcaller EXCEPT ![p].pc = "awaitIsPresent"]
  /\ UNCHANGED <<fcfg, fsource, inner, flat, fhist, nonFlat>>

\* 'await next.isPresent()' is over: return next, or drop the batch and go on
FlatIsPresentResolved(p) ==
  /\ fcaller[p].pc = "awaitIsPresent"
  /\ LET r == IF fcaller[p].next # NoElement
              THEN [st |-> FlatNow, pr |-> fcaller[p], ret |-> <<fcaller[p].next>>]
              ELSE BatchUsedUp(FlatNow, fcaller[p])
     IN /\ FlatCommit(p, r)
        /\ fhist' = FlatReturned(fhist, r)
  /\ UNCHANGED <<fcfg, nonFlat>>

\* 'await sleep(1)' is over
FlatSleepOver(p) ==
  /\ fcaller[p].pc = "sleep"
  /\ FlatCommit(p, FlatFetch(FlatNow, fcaller[p]))
  /\ fhist' = FlatReturned(fhist, FlatFetch(FlatNow, fcaller[p]))
  /\ UNCHANGED <<fcfg, nonFlat>>

\* 'await iterable.next()' is over; nextIterable.isPresent() is awaited, the mapper runs
FlatUpstreamResolved(p) ==
  /\ fcaller[p].pc = "awaitUpstream"
  /\ fcaller' = [fcaller EXCEPT ![p].pc = "awaitIterable"]
  /\ UNCHANGED <<fcfg, fsource, inner, flat, fhist, nonFlat>>

\* 'await nextIterable.isPresent()' is over: await get(), or awaiting-- and loop
FlatIterableResolved(p) ==
  /\ fcaller[p].pc = "awaitIterable"
  /\ LET r == IF fcaller[p].nextIterable # Absent
              THEN [st |-> FlatNow, pr |-> [fcaller[p] EXCEPT !.pc = "awaitGet"], ret |-> <<>>]
              ELSE FlatLoop([FlatNow EXCEPT !.flat.awaiting = @ - 1], fcaller[p])
     IN /\ FlatCommit(p, r)
        /\ fhist' = FlatReturned(fhist, r)
  /\ UNCHANGED <<fcfg, nonFlat>>

\* 'await nextIterable.get()' is over: push the batch, awaiting--, loop
FlatGetResolved(p) ==
  /\ fcaller[p].pc = "awaitGet"
  /\ LET r == FlatLoop([FlatNow EXCEPT
                          !.flat.availableIterables = Append(@, fcaller[p].nextIterable),
                          !.flat.awaiting = @ - 1], fcaller[p])
     IN /\ FlatCommit(p, r)
        /\ fhist' = FlatReturned(fhist, r)
  /\ UNCHANGED <<fcfg, nonFlat>>

\* somebody calls stop() on the flat-mapping iterable
FlatStop ==
  /\ fhist.stops < MaxStops
  /\ flat' = [flat EXCEPT !.done = TRUE]
  /\ fsource' = [fsource EXCEPT !.stops = @ + 1]
  /\ fhist' = [fhist EXCEPT !.stops = @ + 1]
  /\ UNCHANGED <<fcfg, inner, fcaller, nonFlat>>

NextFlat ==
  \/ \E p \in Procs : FlatCall(p)
  \/ \E p \in Procs : FlatBatchResolved(p)
  \/ \E p \in Procs : FlatIsPresentResolved(p)
  \/ \E p \in Procs : FlatSleepOver(p)
  \/ \E p \in Procs : FlatUpstreamResolved(p)
  \/ \E p \in Procs : FlatIterableResolved(p)
  \/ \E p \in Procs : FlatGetResolved(p)
  \/ FlatStop

\* ---------------------------------------------------- AsyncOptional.stream

\* the optional holds the value 1, or it is empty
OptionalCfgs == [value : {Absent, 1}]

OptionalInit ==
  /\ ocfg \in OptionalCfgs
  /\ optionalStream = [done |-> FALSE]
  /\ ocaller = [p \in Pullers |-> <<>>]
  /\ ohist = [issued |-> <<>>, results |-> <<>>, stops |-> 0]

\* no optional is streamed
OptionalParked ==
  /\ ocfg = [value |-> Absent]
  /\ optionalStream = [done |-> FALSE]
  /\ ocaller = [p \in Pullers |-> <<>>]
  /\ ohist = [issued |-> <<>>, results |-> <<>>, stops |-> 0]

\* next without 'done = true'
OptionalNextEveryTime(o) == [o |-> o, ret |-> IF o.done THEN Absent ELSE ocfg.value]

\* next: 'if (done) return AsyncOptional.empty(); done = true; return this'
OptionalNext(o) ==
  [o |-> [o EXCEPT !.done = TRUE], ret |-> IF o.done THEN Absent ELSE ocfg.value]

\* somebody calls next(): the body runs to its end, the promise is handed out
OptionalCall(p) ==
  /\ ocaller[p] = <<>>
  /\ Len(ohist.issued) < MaxCalls
  /\ optionalStream' = OptionalNext(optionalStream).o
  /\ ocaller' = [ocaller EXCEPT ![p] = <<OptionalNext(optionalStream).ret>>]
  /\ ohist' = [ohist EXCEPT !.issued = Append(@, OptionalNext(optionalStream).ret)]
  /\ UNCHANGED <<ocfg, nonOptional>>

\* the caller consumes the result of its call
OptionalResolved(p) ==
  /\ ocaller[p] # <<>>
  /\ ocaller' = [ocaller EXCEPT ![p] = <<>>]
  /\ ohist' = [ohist EXCEPT !.results = @ \o ocaller[p]]
  /\ UNCHANGED <<ocfg, optionalStream, nonOptional>>

\* somebody calls stop(): noop
OptionalStop ==
  /\ ohist.stops < MaxStops
  /\ optionalStream' = Noop(optionalStream)
  /\ ohist' = [ohist EXCEPT !.stops = @ + 1]
  /\ UNCHANGED <<ocfg, ocaller, nonOptional>>

NextOptional ==
  \/ \E p \in Pullers : OptionalCall(p)
  \/ \E p \in Pullers : OptionalResolved(p)
  \/ OptionalStop

\* ------------------------------------------ TakeWhileIterable (synchronous)

\* the longest source of a TakeWhileIterable
MaxSource == 4

TakeWhileCfgs ==
  {c \in [len : 0..MaxSource, accepts : SUBSET (1..MaxSource)] : c.accepts \subseteq 1..c.len}

TakeWhileInit ==
  /\ kcfg \in TakeWhileCfgs
  /\ takeWhile = [first |-> TRUE, next |-> Absent, currentIndex |-> 0]
  /\ toArray = [pc |-> "hasNext", array |-> <<>>]

\* no TakeWhileIterable is in use
TakeWhileParked ==
  /\ kcfg = [len |-> 0, accepts |-> {}]
  /\ takeWhile = [first |-> TRUE, next |-> Absent, currentIndex |-> 0]
  /\ toArray = [pc |-> "done", array |-> <<>>]

\* ArrayIterable.hasNext of the source
SourceHasNext(k) == k.currentIndex < kcfg.len

\* Optional.of(this.source.getNext()).filter(this.predicate), the source advanced
PullFiltered(k) ==
  [k EXCEPT !.next = IF k.currentIndex + 1 \in kcfg.accepts THEN k.currentIndex + 1 ELSE Absent,
            !.currentIndex = @ + 1]

\* TakeWhileIterable.hasNext: the fields after the call; it returns next.isPresent()
TakeWhileHasNext(k) ==
  IF k.first
  THEN [(IF SourceHasNext(k) THEN PullFiltered(k) ELSE k) EXCEPT !.first = FALSE]
  ELSE IF k.next # Absent /\ SourceHasNext(k) THEN PullFiltered(k)
  ELSE k

\* the model follows the array up to MaxSpare elements beyond the length of the source
ArrayWithinBounds(a) == Len(a) <= kcfg.len + MaxSpare

\* Stream.toArray: 'while (this.iterable.hasNext())'
LoopTest ==
  /\ toArray.pc = "hasNext"
  /\ takeWhile' = TakeWhileHasNext(takeWhile)
  /\ toArray' = [toArray EXCEPT !.pc = IF takeWhile'.next # Absent THEN "getNext" ELSE "done"]
  /\ UNCHANGED <<kcfg, nonTakeWhile>>

\* Stream.toArray: 'array.push(this.iterable.getNext())'
LoopBody ==
  /\ toArray.pc = "getNext"
  /\ ArrayWithinBounds(Append(toArray.array, takeWhile.next))
  /\ toArray' = [pc |-> "hasNext", array |-> Append(toArray.array, takeWhile.next)]
  /\ UNCHANGED <<kcfg, takeWhile, nonTakeWhile>>

NextTakeWhile == LoopTest \/ LoopBody

\* ------------------------------- map(asyncMapper).toArray() without a buffer

\* the source holds 1..len; the mapper maps the elements of 'undefined' to undefined
MapCfgs ==
  {c \in [len : 0..MaxSource, undefined : SUBSET (1..MaxSource)] : c.undefined \subseteq 1..c.len}

MapInit ==
  /\ mcfg \in MapCfgs
  /\ mapped = [currentIndex |-> 0, calls |-> 0, promise |-> <<>>, mapping |-> {}]
  /\ collecting = [pc |-> "start", next |-> Absent, array |-> <<>>, started |-> <<>>]

\* no mapped stream is being collected
MapParked ==
  /\ mcfg = [len |-> 0, undefined |-> {}]
  /\ mapped = [currentIndex |-> 0, calls |-> 0, promise |-> <<>>, mapping |-> {}]
  /\ collecting = [pc |-> "done", next |-> Absent, array |-> <<>>, started |-> <<>>]

\* mappedAsyncIterable.next up to 'await iterable.next()': iterableToAsync.next takes
\* the element from the source at once
MappedNext(m) ==
  [m EXCEPT !.currentIndex = IF @ < mcfg.len THEN @ + 1 ELSE @,
            !.calls = @ + 1,
            !.promise = <<IF m.currentIndex < mcfg.len THEN m.currentIndex + 1 ELSE Absent>>]

\* an AsyncOptional that resolves while its mapper is still running
MapperAwaitedNever(m, v) == TRUE

\* Optional.mapAsync: 'new Optional(await mapper(this.contents))', the promise of the
\* mapped AsyncOptional resolves when the mapper has ended
MapperAwaited(m, v) == v \notin m.mapping

\* the result of the mapper: an Optional of undefined is empty
MappedValue(v) == IF v \in mcfg.undefined THEN Absent ELSE v

\* toArray() is called: collectAsync pulls its first item
CollectStart ==
  /\ collecting.pc = "start"
  /\ mapped' = MappedNext(mapped)
  /\ collecting' = [collecting EXCEPT !.pc = "next"]
  /\ UNCHANGED <<mcfg, nonMap>>

\* the promise of next() settles: '.map(mapper)' has called the mapper of a present
\* element; collectAsync holds the AsyncOptional and awaits what is in it
MappedNextResolved ==
  /\ collecting.pc = "next"
  /\ LET v == mapped.promise[1]
     IN /\ mapped' = [mapped EXCEPT !.promise = <<>>,
                                    !.mapping = IF v # Absent THEN @ \cup {v} ELSE @]
        /\ collecting' = [collecting EXCEPT
              !.pc = "isPresent",
              !.next = v,
              !.started = IF v # Absent THEN Append(@, v) ELSE @]
  /\ UNCHANGED <<mcfg, nonMap>>

\* the task of the mapper of v ends
MapperEnds(v) ==
  /\ v \in mapped.mapping
  /\ mapped' = [mapped EXCEPT !.mapping = @ \ {v}]
  /\ UNCHANGED <<mcfg, collecting, nonMap>>

\* collectAsync: the AsyncOptional it holds has resolved; a present value is
\* accumulated and the next item pulled, an absent one ends the collecting
CollectResolved ==
  /\ collecting.pc = "isPresent"
  /\ MapperAwaited(mapped, collecting.next)
  /\ IF collecting.next = Absent \/ MappedValue(collecting.next) = Absent
     THEN /\ collecting' = [collecting EXCEPT !.pc = "done", !.next = Absent]
          /\ UNCHANGED mapped
     ELSE /\ collecting' = [collecting EXCEPT
                !.pc = "next", !.next = Absent,
                !.array = Append(@, MappedValue(collecting.next))]
          /\ mapped' = MappedNext(mapped)
  /\ UNCHANGED <<mcfg, nonMap>>

NextMap ==
  \/ CollectStart
  \/ MappedNextResolved
  \/ \E v \in mapped.mapping : MapperEnds(v)
  \/ CollectResolved

\* ------------------------------------------- sequentialGeneratingIterable

\* the calls of next() made on the generating iterable
MaxGenCalls == 4

IdleGCaller == [pc |-> "idle", all |-> {}, own |-> 0, raced |-> <<>>]

\* the generator's invocations are numbered from 1; invocation k yields the value k
GenInit ==
  /\ gen = [promises |-> <<>>, invoked |-> 0, unsettled |-> {}]
  /\ gcaller = [p \in Pullers |-> IdleGCaller]
  /\ ghist = [calls |-> 0, overlapped |-> FALSE, returned |-> <<>>]

GenParked == GenInit

\* next without its loop 'while (promises.length)': the generator is invoked at once
GenLoopUnguarded(g, pr) ==
  [gen |-> [promises |-> Append(g.promises, g.invoked + 1),
            invoked |-> g.invoked + 1,
            unsettled |-> g.unsettled \cup {g.invoked + 1}],
   pr  |-> [pr EXCEPT !.pc = "race", !.own = g.invoked + 1,
                      !.raced = Append(g.promises, g.invoked + 1)]]

\* next from 'while (promises.length)' to its next await: Promise.all over the
\* promises of the others and a sleep, or the push of an invocation of the generator
\* and Promise.race over the promises
GenLoop(g, pr) ==
  IF g.promises # <<>>
  THEN [gen |-> g, pr |-> [pr EXCEPT !.pc = "all", !.all = SeqToSet(g.promises)]]
  ELSE [gen |-> [promises |-> Append(g.promises, g.invoked + 1),
                 invoked |-> g.invoked + 1,
                 unsettled |-> g.unsettled \cup {g.invoked + 1}],
        pr  |-> [pr EXCEPT !.pc = "race", !.own = g.invoked + 1,
                           !.raced = Append(g.promises, g.invoked + 1)]]

\* somebody calls next()
GenCall(p) ==
  /\ gcaller[p].pc = "idle"
  /\ ghist.calls < MaxGenCalls
  /\ gen' = GenLoop(gen, gcaller[p]).gen
  /\ gcaller' = [gcaller EXCEPT ![p] = GenLoop(gen, gcaller[p]).pr]
  /\ ghist' = [ghist EXCEPT
        !.calls = @ + 1,
        !.overlapped = (@ \/ \E q \in Pullers \ {p} : gcaller[q].pc # "idle")]
  /\ UNCHANGED nonGen

\* the promise of an invocation of the generator settles
GeneratorSettles(k) ==
  /\ k \in gen.unsettled
  /\ gen' = [gen EXCEPT !.unsettled = @ \ {k}]
  /\ UNCHANGED <<gcaller, ghist, nonGen>>

\* 'await Promise.all([...promises, sleep(1)])' is over: the loop test again
GenAllResolved(p) ==
  /\ gcaller[p].pc = "all"
  /\ gcaller[p].all \cap gen.unsettled = {}
  /\ gen' = GenLoop(gen, gcaller[p]).gen
  /\ gcaller' = [gcaller EXCEPT ![p] = GenLoop(gen, [gcaller[p] EXCEPT !.all = {}]).pr]
  /\ UNCHANGED <<ghist, nonGen>>

\* 'await Promise.race(promises)' is over with the value of a settled promise k of
\* the list; promises.pop(); the call returns that value
GenRaceResolved(p, k) ==
  /\ gcaller[p].pc = "race"
  /\ k \in SeqToSet(gcaller[p].raced) \ gen.unsettled
  /\ gen' = [gen EXCEPT !.promises = SubSeq(@, 1, Len(@) - 1)]
  /\ gcaller' = [gcaller EXCEPT ![p] = IdleGCaller]
  /\ ghist' = [ghist EXCEPT !.returned = Append(@, [own |-> gcaller[p].own, got |-> k])]
  /\ UNCHANGED nonGen

NextGen ==
  \/ \E p \in Pullers : GenCall(p)
  \/ \E k \in gen.unsettled : GeneratorSettles(k)
  \/ \E p \in Pullers : GenAllResolved(p)
  \/ \E p \in Pullers : \E k \in 1..gen.invoked : GenRaceResolved(p, k)

\* ------- the synchronous iterables: ArrayIterable, FilteringIterable,
\* ------- FlatteningIterable, TransformingIterator

\* the longest array a stream is made of
MaxArray == 2

\* the elements are 1..MaxValue
MaxValue == 2

\* the calls of getNext() the consumer makes
MaxGets == 5

\* the calls of hasNext() the consumer makes in succession
MaxPeeks == 2

Arrays == UNION {[1..n -> 1..MaxValue] : n \in 0..MaxArray}

\* batch(size) and sorted()
SyncTransformers == [name : {"batch"}, size : 1..MaxArray] \cup {[name |-> "sorted", size |-> 0]}

\* new ArrayIterable(array); new FilteringIterable(new ArrayIterable(array), pass);
\* Stream.ofArray(outer).flatMap(item => Stream.ofArray(item)) and the same with
\* .filter(pass) on every inner stream; new TransformingIterator(new ArrayIterable(array), t)
IterCfgs ==
  [kind : {"array"}, array : Arrays, outer : {<<>>}, filtered : {FALSE},
   pass : {{}}, transformer : {[name |-> "sorted", size |-> 0]}]
  \cup
  [kind : {"filter"}, array : Arrays, outer : {<<>>}, filtered : {TRUE},
   pass : SUBSET (1..MaxValue), transformer : {[name |-> "sorted", size |-> 0]}]
  \cup
  [kind : {"flat"}, array : {<<>>},
   outer : UNION {[1..n -> Arrays] : n \in 0..MaxArray}, filtered : {FALSE},
   pass : {{}}, transformer : {[name |-> "sorted", size |-> 0]}]
  \cup
  [kind : {"flat"}, array : {<<>>},
   outer : UNION {[1..n -> Arrays] : n \in 0..MaxArray}, filtered : {TRUE},
   pass : SUBSET (1..MaxValue), transformer : {[name |-> "sorted", size |-> 0]}]
  \cup
  [kind : {"transform"}, array : Arrays, outer : {<<>>}, filtered : {FALSE},
   pass : {{}}, transformer : SyncTransformers]

\* an Optional is <<>> when empty and <<v>> when it holds v
\* ArrayIterable: 'currentIndex = 0'
ArrayIterable(array) == [kind |-> "array", array |-> array, currentIndex |-> 0]

\* ArrayIterable.hasNext
ArrayHasNext(it) == it.currentIndex < Len(it.array)

\* ArrayIterable.getNext; ret is <<>> when it throws
ArrayGetNext(it) ==
  IF ~ArrayHasNext(it)
  THEN [it |-> it, ret |-> <<>>]
  ELSE [it |-> [it EXCEPT !.currentIndex = @ + 1], ret |-> <<it.array[it.currentIndex + 1]>>]

\* FilteringIterable: 'next = Optional.empty()'
FilteringIterable(src, pass) ==
  [kind |-> "filter", next |-> <<>>, source |-> src, pass |-> pass]

\* FilteringIterable.hasNext: the loop 'while (source.hasNext() && next.isEmpty())'
RECURSIVE FilteringLoop(_)
FilteringLoop(it) ==
  IF ArrayHasNext(it.source) /\ Len(it.next) = 0
  THEN FilteringLoop([it EXCEPT
         !.source = ArrayGetNext(it.source).it,
         !.next = IF ArrayGetNext(it.source).ret[1] \in it.pass
                  THEN ArrayGetNext(it.source).ret ELSE <<>>])
  ELSE it

\* FilteringIterable.hasNext: 'this.next = Optional.empty()', the loop, next.isPresent()
FilteringHasNext(it) ==
  [it |-> FilteringLoop([it EXCEPT !.next = <<>>]),
   ret |-> Len(FilteringLoop([it EXCEPT !.next = <<>>]).next) > 0]

\* FilteringIterable.getNext: next.orElseThrow
FilteringGetNext(it) == [it |-> it, ret |-> it.next]

\* hasNext and getNext of the iterable of an inner stream
InnerHasNext(it) ==
  IF it.kind = "array" THEN [it |-> it, ret |-> ArrayHasNext(it)] ELSE FilteringHasNext(it)

InnerGetNext(it) ==
  IF it.kind = "array" THEN ArrayGetNext(it) ELSE FilteringGetNext(it)

\* Stream.flatMap: new FlatteningIterable(new MappingIterable(iterable, mapper)); the
\* mapper is applied by MappingIterable.getNext
FlatteningIterable(outer, flt, pass) ==
  [kind |-> "flat", currentIterable |-> <<>>, source |-> ArrayIterable(outer),
   filtered |-> flt, pass |-> pass]

\* the mapper of flatMap: item => Stream.ofArray(item)[.filter(pass)], then getIterable()
InnerIterable(it, item) ==
  IF it.filtered THEN FilteringIterable(ArrayIterable(item), it.pass) ELSE ArrayIterable(item)

\* 'this.currentIterable.map((iterable) => iterable.hasNext()).orElse(false)'
CurrentHasNext(it) ==
  IF Len(it.currentIterable) = 0
  THEN [it |-> it, ret |-> FALSE]
  ELSE [it |-> [it EXCEPT !.currentIterable = <<InnerHasNext(it.currentIterable[1]).it>>],
        ret |-> InnerHasNext(it.currentIterable[1]).ret]

\* FlatteningIterable.hasNext: the loop
\* 'while (!currentIterable.map(hasNext).orElse(false) && source.hasNext())'
RECURSIVE FlatteningLoop(_)
FlatteningLoop(it) ==
  LET c == CurrentHasNext(it)
  IN IF ~c.ret /\ ArrayHasNext(c.it.source)
     THEN FlatteningLoop([c.it EXCEPT
            !.source = ArrayGetNext(c.it.source).it,
            !.currentIterable = <<InnerIterable(it, ArrayGetNext(c.it.source).ret[1])>>])
     ELSE c.it

\* FlatteningIterable.hasNext: the loop, then currentIterable.map(hasNext) once more
FlatteningHasNext(it) == CurrentHasNext(FlatteningLoop(it))

\* FlatteningIterable.getNext
FlatteningGetNext(it) ==
  IF Len(it.currentIterable) = 0
  THEN [it |-> it, ret |-> <<>>]
  ELSE [it |-> [it EXCEPT !.currentIterable = <<InnerGetNext(it.currentIterable[1]).it>>],
        ret |-> InnerGetNext(it.currentIterable[1]).ret]

\* supplier of batch and of sorted: () => []
SyncSupplier == <<>>

\* transformer of batch: a.push(t), the batch with clearState when a.length >= size;
\* transformer of sorted: a.push(t), no value
SyncTransformer(tr, a, t) ==
  IF tr.name = "batch" /\ Len(a) + 1 >= tr.size
  THEN [acc |-> Append(a, t), clearState |-> TRUE, value |-> <<Append(a, t)>>]
  ELSE [acc |-> Append(a, t), clearState |-> FALSE, value |-> <<>>]

\* finisher of batch: Optional.of(a).filter(a => a.length > 0); of sorted:
\* Optional.of(a.sort(compareFn))
SyncFinisher(tr, a) ==
  IF tr.name = "batch"
  THEN (IF Len(a) > 0 THEN <<a>> ELSE <<>>)
  ELSE <<SortSeq(a, LAMBDA x, y : x < y)>>

\* TransformingIterator: 'next = Optional.empty()', 'accumulator = transformer.supplier()'
TransformingIterator(src, tr) ==
  [kind |-> "transform", next |-> <<>>, accumulator |-> SyncSupplier,
   source |-> src, transformer |-> tr]

\* TransformingIterator.hasNext: the loop 'while (this.source.hasNext())', then the
\* finisher and the wipe of the accumulator; fin tells that the finisher ran
RECURSIVE TransformingLoop(_)
TransformingLoop(it) ==
  IF ArrayHasNext(it.source)
  THEN LET g  == ArrayGetNext(it.source)
           tf == SyncTransformer(it.transformer, it.accumulator, g.ret[1])
       IN IF Len(tf.value) > 0
          THEN [it |-> [it EXCEPT !.source = g.it,
                                  !.accumulator = IF tf.clearState THEN SyncSupplier ELSE tf.acc,
                                  !.next = tf.value],
                ret |-> TRUE, fin |-> FALSE]
          ELSE TransformingLoop([it EXCEPT !.source = g.it, !.accumulator = tf.acc])
  ELSE [it |-> [it EXCEPT !.next = SyncFinisher(it.transformer, it.accumulator),
                          !.accumulator = SyncSupplier],
        ret |-> Len(SyncFinisher(it.transformer, it.accumulator)) > 0, fin |-> TRUE]

\* TransformingIterator.hasNext
TransformingHasNext(it) == TransformingLoop([it EXCEPT !.next = <<>>])

\* TransformingIterator.getNext: next.orElseThrow
TransformingGetNext(it) == [it |-> it, ret |-> it.next]

\* the iterable the configuration constructs
NewIterable(c) ==
  CASE c.kind = "array" -> ArrayIterable(c.array)
    [] c.kind = "filter" -> FilteringIterable(ArrayIterable(c.array), c.pass)
    [] c.kind = "flat" -> FlatteningIterable(c.outer, c.filtered, c.pass)
    [] c.kind = "transform" -> TransformingIterator(ArrayIterable(c.array), c.transformer)

\* Iterable.hasNext and Iterable.getNext of the iterable under test
HasNext(it) ==
  CASE it.kind = "array" -> [it |-> it, ret |-> ArrayHasNext(it), fin |-> FALSE]
    [] it.kind = "filter" -> [it |-> FilteringHasNext(it).it, ret |-> FilteringHasNext(it).ret,
                              fin |-> FALSE]
    [] it.kind = "flat" -> [it |-> FlatteningHasNext(it).it, ret |-> FlatteningHasNext(it).ret,
                            fin |-> FALSE]
    [] it.kind = "transform" -> TransformingHasNext(it)

GetNext(it) ==
  CASE it.kind = "array" -> ArrayGetNext(it)
    [] it.kind = "filter" -> FilteringGetNext(it)
    [] it.kind = "flat" -> FlatteningGetNext(it)
    [] it.kind = "transform" -> TransformingGetNext(it)

\* answers and peeks: what hasNext() returned, and what getNext() would have returned,
\* at each call of hasNext() since the last getNext(); fins: the answers of the
\* calls of hasNext() in which the finisher ran; doubled: hasNext() was called twice
\* in succession
NewIterHist ==
  [answers |-> <<>>, peeks |-> <<>>, out |-> <<>>, fins |-> <<>>, doubled |-> FALSE]

IterInit ==
  /\ icfg \in IterCfgs
  /\ iter = NewIterable(icfg)
  /\ ihist = NewIterHist

\* the synchronous iterables are not in use
IterParked ==
  /\ icfg = [kind |-> "array", array |-> <<>>, outer |-> <<>>, filtered |-> FALSE,
             pass |-> {}, transformer |-> [name |-> "sorted", size |-> 0]]
  /\ iter = ArrayIterable(<<>>)
  /\ ihist = NewIterHist

\* the consumer calls hasNext()
IterHasNext ==
  /\ Len(ihist.answers) < MaxPeeks
  /\ iter' = HasNext(iter).it
  /\ ihist' = [ihist EXCEPT
        !.answers = Append(@, HasNext(iter).ret),
        !.peeks = Append(@, GetNext(HasNext(iter).it).ret),
        !.fins = IF HasNext(iter).fin THEN Append(@, HasNext(iter).ret) ELSE @,
        !.doubled = (@ \/ Len(ihist.answers) > 0)]
  /\ UNCHANGED <<icfg, nonIter>>

\* the consumer calls getNext() after hasNext() has answered true
IterGetNext ==
  /\ Len(ihist.answers) > 0
  /\ ihist.answers[Len(ihist.answers)]
  /\ Len(ihist.out) < MaxGets
  /\ iter' = GetNext(iter).it
  /\ ihist' = [ihist EXCEPT !.answers = <<>>, !.peeks = <<>>, !.out = @ \o GetNext(iter).ret]
  /\ UNCHANGED <<icfg, nonIter>>

NextIter == IterHasNext \/ IterGetNext

Init == BufferInit /\ LimitParked /\ StreamParked /\ ChainParked /\ PipeParked /\ TransformParked /\ FlatParked /\ OptionalParked /\ TakeWhileParked /\ MapParked /\ GenParked /\ IterParked

Spec == Init /\ [][NextMappedBuffer]_vars

\* nextReadyOne after 'await buffered.isPresent()', followed however many fetches
\* queueMore has issued
IsPresentResolvedLive(p) ==
  /\ caller[p].pc = "isPresent"
  /\ buffer' = QueueMore(Now).buf
  /\ iterable' = QueueMore(Now).up
  /\ caller' = [caller EXCEPT ![p].pc = "sleepReady",
                              ![p].isPresent = (caller[p].buffered.val # Absent)]
  /\ UNCHANGED <<bcfg, bhist, nonBuffer>>

\* next after nextReadyOne returned undefined, followed however many fetches
\* queueMore has issued
AvailableLive(p) ==
  /\ caller[p].pc = "available"
  /\ buffer' = QueueMore(Now).buf
  /\ iterable' = QueueMore(Now).up
  /\ caller' = [caller EXCEPT ![p].pc = "sleepNext"]
  /\ UNCHANGED <<bcfg, bhist, nonBuffer>>

\* the steps of a call of next() that is in flight
Resumes(p) ==
  IsPresentResolvedLive(p) \/ SleepReady(p) \/ AvailableLive(p) \/ SleepNext(p) \/ Race(p)

\* a consumer that calls next() one call after the other, as a terminal operation
\* does, and never stop()
InitLive == Init /\ bcfg.kind = "generic" /\ bcfg.driver = "free"

NextLive ==
  \/ Call(1)
  \/ IsPresentResolvedLive(1)
  \/ SleepReady(1)
  \/ AvailableLive(1)
  \/ SleepNext(1)
  \/ Race(1)
  \/ \E i \in DOMAIN buffer.pending : Settle(i)

\* the continuations of the call run and its timers fire; of the upstream's fetches
\* in flight one settles in the end, which is less than that each of them does
SpecLive ==
  /\ InitLive
  /\ [][NextLive]_vars
  /\ SF_vars(Resumes(1))
  /\ SF_vars(\E i \in DOMAIN buffer.pending : Settle(i))

InitLimit == LimitInit /\ BufferParked /\ StreamParked /\ ChainParked /\ PipeParked /\ TransformParked /\ FlatParked /\ OptionalParked /\ TakeWhileParked /\ MapParked /\ GenParked /\ IterParked

SpecLimit == InitLimit /\ [][NextLimit]_vars

InitStream == StreamInit /\ BufferParked /\ LimitParked /\ ChainParked /\ PipeParked /\ TransformParked /\ FlatParked /\ OptionalParked /\ TakeWhileParked /\ MapParked /\ GenParked /\ IterParked

SpecStream == InitStream /\ [][NextStream]_vars

InitChain == ChainInit /\ BufferParked /\ LimitParked /\ StreamParked /\ PipeParked /\ TransformParked /\ FlatParked /\ OptionalParked /\ TakeWhileParked /\ MapParked /\ GenParked /\ IterParked

SpecChain == InitChain /\ [][NextChain]_vars

InitFail ==
  /\ bcfg \in FailCfgs
  /\ iterable = [pos |-> 0, calls |-> 0, stops |-> 0, mapping |-> {}]
  /\ buffer = [stop |-> FALSE, pending |-> <<>>, ready |-> <<>>, index |-> 0]
  /\ caller = [p \in Procs |-> IdleCaller]
  /\ bhist = NoHistory
  /\ LimitParked /\ StreamParked /\ ChainParked /\ PipeParked /\ TransformParked /\ FlatParked /\ OptionalParked /\ TakeWhileParked /\ MapParked /\ GenParked /\ IterParked

SpecFail == InitFail /\ [][NextBufferFail]_vars

InitPipe == PipeInit /\ BufferParked /\ LimitParked /\ StreamParked /\ ChainParked /\ TransformParked /\ FlatParked /\ OptionalParked /\ TakeWhileParked /\ MapParked /\ GenParked /\ IterParked

SpecPipe == InitPipe /\ [][NextPipe]_vars

InitTransform ==
  /\ TransformInit
  /\ BufferParked /\ LimitParked /\ StreamParked /\ ChainParked /\ PipeParked
  /\ FlatParked /\ OptionalParked /\ TakeWhileParked /\ MapParked /\ GenParked /\ IterParked

SpecTransform == InitTransform /\ [][NextTransform]_vars

InitFlat ==
  /\ FlatInit
  /\ BufferParked /\ LimitParked /\ StreamParked /\ ChainParked /\ PipeParked
  /\ TransformParked /\ OptionalParked /\ TakeWhileParked /\ MapParked /\ GenParked /\ IterParked

SpecFlat == InitFlat /\ [][NextFlat]_vars

InitOptional ==
  /\ OptionalInit
  /\ BufferParked /\ LimitParked /\ StreamParked /\ ChainParked /\ PipeParked
  /\ TransformParked /\ FlatParked /\ TakeWhileParked /\ MapParked /\ GenParked /\ IterParked

SpecOptional == InitOptional /\ [][NextOptional]_vars

\* one of the combinators filter, flatMap, transform and limit over a source that
\* is not empty; the others are not in use and stay so
InitCombinator ==
  \/ /\ PipeInit /\ pcfg.kind = "filtered" /\ pcfg.len > 0
     /\ BufferParked /\ LimitParked /\ StreamParked /\ ChainParked
     /\ TransformParked /\ FlatParked /\ OptionalParked /\ TakeWhileParked /\ MapParked /\ GenParked /\ IterParked
  \/ /\ FlatInit /\ fcfg # <<>>
     /\ BufferParked /\ LimitParked /\ StreamParked /\ ChainParked
     /\ PipeParked /\ TransformParked /\ OptionalParked /\ TakeWhileParked /\ MapParked /\ GenParked /\ IterParked
  \/ /\ TransformInit /\ tcfg.len > 0
     /\ BufferParked /\ LimitParked /\ StreamParked /\ ChainParked
     /\ PipeParked /\ FlatParked /\ OptionalParked /\ TakeWhileParked /\ MapParked /\ GenParked /\ IterParked
  \/ /\ LimitInit /\ lcfg.len > 0
     /\ BufferParked /\ StreamParked /\ ChainParked
     /\ PipeParked /\ TransformParked /\ FlatParked /\ OptionalParked /\ TakeWhileParked /\ MapParked /\ GenParked /\ IterParked

NextCombinator ==
  \/ pcfg.kind = "filtered" /\ NextPipe
  \/ fcfg # <<>> /\ NextFlat
  \/ tcfg.len > 0 /\ NextTransform
  \/ lcfg.len > 0 /\ NextLimit

SpecCombinator == InitCombinator /\ [][NextCombinator]_vars

InitTakeWhile ==
  /\ TakeWhileInit
  /\ BufferParked /\ LimitParked /\ StreamParked /\ ChainParked /\ PipeParked
  /\ TransformParked /\ FlatParked /\ OptionalParked /\ MapParked /\ GenParked /\ IterParked

SpecTakeWhile == InitTakeWhile /\ [][NextTakeWhile]_vars

InitMap ==
  /\ MapInit
  /\ BufferParked /\ LimitParked /\ StreamParked /\ ChainParked /\ PipeParked
  /\ TransformParked /\ FlatParked /\ OptionalParked /\ TakeWhileParked /\ GenParked /\ IterParked

SpecMap == InitMap /\ [][NextMap]_vars

InitGen ==
  /\ GenInit
  /\ BufferParked /\ LimitParked /\ StreamParked /\ ChainParked /\ PipeParked
  /\ TransformParked /\ FlatParked /\ OptionalParked /\ TakeWhileParked /\ MapParked /\ IterParked

SpecGen == InitGen /\ [][NextGen]_vars

InitIter ==
  /\ IterInit
  /\ BufferParked /\ LimitParked /\ StreamParked /\ ChainParked /\ PipeParked
  /\ TransformParked /\ FlatParked /\ OptionalParked /\ TakeWhileParked /\ MapParked
  /\ GenParked

SpecIter == InitIter /\ [][NextIter]_vars

RECURSIVE CountPresent(_)
CountPresent(s) ==
  IF s = <<>> THEN 0 ELSE (IF Head(s) # Absent THEN 1 ELSE 0) + CountPresent(Tail(s))

\* ------------------------------------------------------------------ C1
\* C1: in every reachable state the fetches that bufferingIterable has issued and
\* that have not settled (the entries of pending) number at most size.
C1_PendingAtMostSize == Cardinality(DOMAIN buffer.pending) <= bcfg.size

\* the window is full, more than one fetch is in flight and a call is asleep in queueMore
C1_Witness ==
  /\ bcfg.size > 1
  /\ Cardinality(DOMAIN buffer.pending) = bcfg.size
  /\ \E p \in Procs : caller[p].pc \in {"sleepNext", "sleepReady"}
  /\ \A p \in Procs : caller[p].pc # "idle"

\* ------------------------------------------------------------------ C2
\* C2: a caller that calls next() one call after the other, and never stop(), has
\* received, when next() returns absent, every value of the source exactly once,
\* whatever the order in which the fetches completed.
C2_AllValuesDelivered ==
  (bcfg.driver = "free" /\ ~bhist.overlapped /\ bhist.stops = 0 /\ bhist.absents > 0)
    => /\ Len(bhist.delivered) = bcfg.len
       /\ SeqToSet(bhist.delivered) = 1..bcfg.len

\* next() has returned absent to a sequential caller while the fetch of a value
\* of the source is still in flight
C2_Witness ==
  /\ bcfg.driver = "free"
  /\ ~bhist.overlapped
  /\ bhist.stops = 0
  /\ bhist.absents = 1
  /\ \E i \in DOMAIN buffer.pending :
        /\ buffer.pending[i] # Absent
        /\ buffer.pending[i] \notin SeqToSet(bhist.delivered)

\* ------------------------------------------------------------------ C8
\* C8: in the pipeline of 8 elements, async mapper, buffer(3) and findFirst, fewer
\* than 8 source elements are ever taken, and once findFirst has called stop() the
\* buffer calls next() on its upstream no more.
C8_FindFirstStopsUpstream ==
  [][bcfg = TestCfg =>
       /\ iterable'.pos < TestLen
       /\ bhist.stops > 0 => iterable'.calls = iterable.calls]_vars

\* findFirst has delivered a value and called stop(); two windows were fetched
C8_Witness ==
  /\ bcfg = TestCfg
  /\ bhist.stops = 1
  /\ Len(bhist.delivered) = 1
  /\ iterable.pos = 2 * TestSize

\* ------------------------------------------------------------------ C9
\* C9: stop() on the buffer sets its flag and calls stop() on the upstream; after
\* it no step calls next() on the upstream; and a next() called after it while
\* ready is empty returns absent at once.
C9_StopHaltsFetching ==
  [][/\ bhist'.stops = bhist.stops + 1 =>
          buffer'.stop /\ iterable'.stops = iterable.stops + 1
     /\ bhist.stops > 0 => iterable'.calls = iterable.calls
     /\ (bhist.stops > 0 /\ buffer.ready = <<>> /\ bhist'.calls = bhist.calls + 1) =>
          bhist'.absents = bhist.absents + 1 /\ caller' = caller]_vars

\* stop() came before any fetch, and the next() after it returned absent
C9_Witness ==
  /\ bhist.stops = 1
  /\ iterable.stops = 1
  /\ buffer.index = 0
  /\ bhist.calls = 1
  /\ bhist.absents = 1

\* ------------------------------------------------------------------ C3
\* C3: over the lifetime of a limitingIterable, however its next() calls overlap and
\* in whatever order the source settles them, at most max results are present.
C3_AtMostMaxPresent == CountPresent(lhist.results) <= lcfg.max

\* more calls than max overlapped; max of them returned a value, another one absent
C3_Witness ==
  /\ lhist.overlapped
  /\ lcfg.max > 0
  /\ lhist.stops = 0
  /\ CountPresent(lhist.results) = lcfg.max
  /\ Len(lhist.results) > lcfg.max
  /\ source.calls > lcfg.max

\* ------------------------------------------------------------------ C4
\* C4: called one call after the other, never stopped from outside, on a source of
\* at least max values, the limit returns the first max values of the source in
\* source order and absent from then on.
C4_SequentialFirstMax ==
  (~lhist.overlapped /\ lhist.stops = 0 /\ lcfg.len >= lcfg.max
     /\ \A p \in Pullers : puller[p].pc = "idle")
    => \A i \in 1..Len(lhist.results) :
         lhist.results[i] = IF i <= lcfg.max THEN i ELSE Absent

\* max + 2 sequential calls have returned
C4_Witness ==
  /\ ~lhist.overlapped
  /\ lhist.stops = 0
  /\ lcfg.max = MaxMax
  /\ lcfg.len >= lcfg.max
  /\ Len(lhist.results) = lcfg.max + 2

\* ------------------------------------------------------------------ C5
\* C5: once a terminal operation has been invoked on an AsyncStream, every further
\* terminal operation on it, of whatever kind, fails and in failing neither pulls
\* from the iterable nor stops it nor disturbs the running operation.
C5_SecondTerminalFails ==
  [][(shist.terminals > 0 /\ shist'.terminals = shist.terminals + 1) =>
       /\ shist'.last.outcome = "error"
       /\ asyncIterable' = asyncIterable
       /\ operation' = operation]_vars

\* toArray was refused on a stream that findFirst had terminated
C5_Witness ==
  /\ operation.name = "findFirst"
  /\ shist.last = [op |-> "toArray", outcome |-> "error"]
  /\ shist.terminals = 2

\* ------------------------------------------------------------------ C6
\* C6: a non-terminal combinator, called before or after a terminal operation,
\* succeeds, leaves hasTerminated as it is and calls neither next() nor stop()
\* on the iterable.
C6_CombinatorsLeaveStreamAlone ==
  [][(shist'.ncalls = shist.ncalls + 1 /\ shist'.last.op \in Combinators) =>
       /\ shist'.last.outcome = "ok"
       /\ stream' = stream
       /\ asyncIterable' = asyncIterable]_vars

\* combinators were called before and after a terminal operation
C6_Witness ==
  /\ shist.last.op \in Combinators
  /\ shist.terminals = 1
  /\ stream.hasTerminated
  /\ shist.derived > 1
  /\ shist.ncalls = 3

\* ------------------------------------------------------------------ C7
\* C7: findFirst() without predicate calls next() on the iterable exactly once,
\* calls stop() when that call has resolved and not before, and does so whether
\* the result is present or absent.
C7_FindFirstPullsOnceThenStops ==
  operation.name = "findFirst" =>
    /\ asyncIterable.calls = 1
    /\ operation.pc = "await" => asyncIterable.stops = 0
    /\ operation.pc = "done" => asyncIterable.stops = 1

\* findFirst on an empty source has resolved to absent and stopped the iterable
C7_Witness ==
  /\ operation.name = "findFirst"
  /\ operation.pc = "done"
  /\ operation.result = Absent
  /\ asyncIterable.stops = 1

\* ----------------------------------------------------------------- C10
\* C10: stop() on a combinator calls stop() on its upstream: no level has been
\* stopped more often than the level below it, and once the outermost combinator
\* has been stopped every level down to the source has been.
C10_StopReachesSource ==
  /\ \A i \in 1..Len(chain) : stopCalls[i] <= stopCalls[i - 1]
  /\ (Len(chain) > 0 /\ stopCalls[Len(chain)] > 0) =>
        \A i \in 0..Len(chain) : stopCalls[i] > 0

\* stop() on the outermost of a full chain that holds a map has reached the source
C10_Witness ==
  /\ Len(chain) = MaxChain
  /\ \E i \in 1..Len(chain) : chain[i] = "map"
  /\ stopCalls[Len(chain)] > 0
  /\ stopCalls[0] > 0

\* ----------------------------------------------------------------- C15
\* C15: with size = 1 and one consumer that awaits each next() before the next one,
\* what the buffer delivers is the source sequence in source order, in whatever
\* order and at whatever time the fetches settle; at absent it is the whole of it.
C15_SizeOneKeepsOrder ==
  (bcfg.size = 1 /\ bcfg.driver = "free" /\ ~bhist.overlapped /\ bhist.stops = 0) =>
    /\ \A k \in 1..Len(bhist.delivered) : bhist.delivered[k] = k
    /\ bhist.absents > 0 => Len(bhist.delivered) = bcfg.len

\* a buffer of size 1 has delivered a source of MaxLen values and then absent
C15_Witness ==
  /\ bcfg.size = 1
  /\ bcfg.driver = "free"
  /\ bcfg.len = MaxLen
  /\ ~bhist.overlapped
  /\ bhist.stops = 0
  /\ bhist.absents = 1
  /\ Len(bhist.delivered) = MaxLen

\* the present values whose fetches have settled
ResolvedValues ==
  (1..iterable.pos) \ {buffer.pending[i] : i \in DOMAIN buffer.pending}

\* ----------------------------------------------------------------- C16
\* C16: a consumer that calls next() one call after the other is told absent only
\* when the ready queue is empty and every present result that had settled by then
\* has been delivered to it: taking an absent result from the queue discards none
\* of the results queued with it.
C16_QueuedValuesDelivered ==
  [][(bcfg.driver = "free" /\ ~bhist'.overlapped /\ bhist'.absents = bhist.absents + 1) =>
       /\ buffer'.ready = <<>>
       /\ ResolvedValues' \subseteq SeqToSet(bhist'.delivered)]_vars

\* an absent result was taken while a present one was queued; the consumer has
\* since received every value of the source and then absent
C16_Witness ==
  /\ bcfg.driver = "free"
  /\ ~bhist.overlapped
  /\ bhist.overtaken
  /\ bhist.stops = 0
  /\ bhist.absents = 1
  /\ bcfg.len > 0
  /\ Len(bhist.delivered) = bcfg.len

\* a fetch has resolved to absent: the result is queued, or a call has taken it
AbsentResolved ==
  \/ \E k \in 1..Len(buffer.ready) : buffer.ready[k].val = Absent
  \/ \E p \in Procs : /\ caller[p].pc \in {"isPresent", "sleepReady"}
                       /\ caller[p].buffered.val = Absent

\* ----------------------------------------------------------------- C17
\* C17: once a fetch has resolved to absent, the buffer calls next() on its upstream
\* no more while a present result is queued and undelivered.
C17_NoFetchBeforeDrained ==
  [][(/\ bcfg.driver = "free"
      /\ ~bhist.overlapped
      /\ bhist.stops = 0
      /\ AbsentResolved
      /\ \E k \in 1..Len(buffer.ready) : buffer.ready[k].val # Absent) =>
       iterable'.calls = iterable.calls]_vars

\* the first call holds the absent result it took, the value fetched with it is
\* still queued, and the window is full again, of fetches issued since
C17_Witness ==
  /\ bcfg.driver = "free"
  /\ ~bhist.overlapped
  /\ bhist.stops = 0
  /\ bhist.calls = 1
  /\ bcfg.size > 1
  /\ \E p \in Procs : /\ caller[p].pc = "sleepReady"
                       /\ caller[p].buffered.val = Absent
  /\ \E k \in 1..Len(buffer.ready) : buffer.ready[k].val # Absent
  /\ Cardinality(DOMAIN buffer.pending) = bcfg.size
  /\ iterable.calls = 2 * bcfg.size

\* ----------------------------------------------------------------- C20
\* C20: a next() called on the limit once its counter has reached max returns absent
\* at once, calls source.next() not at all and leaves the source stopped; called one
\* call after the other and never stopped from outside, the limit has pulled its
\* source once per call up to max and never more, however many calls follow.
C20_NoPullBeyondMax ==
  [][/\ (lhist'.calls = lhist.calls + 1 /\ limit.count >= lcfg.max) =>
          /\ source'.calls = source.calls
          /\ source'.stops > 0
          /\ limit'.stop
          /\ lhist'.results = Append(lhist.results, Absent)
          /\ puller' = puller
     /\ (~lhist'.overlapped /\ lhist'.stops = 0 /\ \A p \in Pullers : puller'[p].pc = "idle") =>
          source'.calls = IF lhist'.calls <= lcfg.max THEN lhist'.calls ELSE lcfg.max]_vars

\* max + 2 sequential calls: the source was pulled max times and stopped by the limit
C20_Witness ==
  /\ ~lhist.overlapped
  /\ lhist.stops = 0
  /\ lcfg.max > 0
  /\ lhist.calls = lcfg.max + 2
  /\ source.calls = lcfg.max
  /\ source.stops = 1
  /\ limit.count = lcfg.max
\* ------------------------------------------------------------------ C18
\* C18: a rejection of an upstream next() is never swallowed by bufferingIterable:
\* when nobody has called stop() and the buffer has reported the end of the stream
\* although a fetch has rejected, some call of next() has failed.
C18_FailureReachesDownstream ==
  (bhist.stops = 0 /\ bhist.rejected # {} /\ bhist.absents > 0) => bhist.errors > 0

\* a fetch has rejected, the stream has ended for the consumer, no call has failed
C18_Witness ==
  /\ bcfg.failAt = "next"
  /\ bhist.stops = 0
  /\ bhist.rejected # {}
  /\ bhist.absents > 0
  /\ bhist.errors = 0
  /\ \A p \in Procs : caller[p].pc = "idle"

\* ------------------------------------------------------------------ C19
\* C19: a fetch of bufferingIterable that has failed is no longer in the in-flight
\* mapping pending: its slot is available again.
C19_FailedFetchRemoved == \A i \in bhist.rejected : i \notin DOMAIN buffer.pending

\* the only slot is held by the fetch that failed; next() polls and cannot fetch
C19_Witness ==
  /\ bcfg.size = 1
  /\ bcfg.len > 0
  /\ bhist.stops = 0
  /\ bhist.rejected = {0}
  /\ DOMAIN buffer.pending = {0}
  /\ ~buffer.stop
  /\ iterable.calls = 1
  /\ \E p \in Procs : caller[p].pc = "race"

\* ------------------------------------------------------------------ C11
\* C11: once stop() has been invoked on an AsyncIterable, be it a source or a
\* combinator, every call of next() made afterwards reports absent.
C11_AbsentAfterStop == \A k \in 1..Len(phist.late) : phist.late[k] = Absent

\* iterableToAsync was stopped, and the call of next() made afterwards returned a value
C11_Witness ==
  /\ pcfg.kind = "source"
  /\ phist.stops > 0
  /\ phist.early = <<>>
  /\ Len(phist.late) = 1
  /\ phist.late[1] = 1

\* ------------------------------------------------------------------ C13
\* C13: over the lifetime of a transformingAsyncIterable the finisher is invoked at
\* most once, namely by the call of next() that sees the upstream exhausted; a call
\* of next() made after that returns absent, invokes no finisher and pulls nothing.
C13_FinisherExactlyOnce ==
  [][/\ thist'.finisherCalls <= 1
     /\ (thist'.calls = thist.calls + 1 /\ thist.finisherCalls > 0) =>
           /\ thist'.finisherCalls = thist.finisherCalls
           /\ thist'.absents = thist.absents + 1
           /\ tsource' = tsource]_vars

\* two calls of next() overlapped on an empty source and each invoked the finisher
C13_Witness ==
  /\ tcfg.len = 0
  /\ thist.stops = 0
  /\ thist.calls = 2
  /\ thist.finisherCalls = 2
  /\ tsource.calls = 2

\* ------------------------------------------------------------------ C14
RECURSIVE Flatten(_)
Flatten(ss) == IF ss = <<>> THEN <<>> ELSE Head(ss) \o Flatten(Tail(ss))

\* C14: draining transform(batch(k)) by sequential calls of next(), without stop(),
\* over a source of n elements: the batches delivered so far concatenate to a prefix
\* of the source, each has exactly k elements except that the last may be shorter
\* when the source is exhausted; once absent is returned there are ceil(n/k)
\* batches, their concatenation is the source, and an empty source gave none.
C14_BatchesPartitionSource ==
  (~thist.overlapped /\ thist.stops = 0) =>
    /\ thist.errors = 0
    /\ Flatten(thist.batches) = [i \in 1..Len(Flatten(thist.batches)) |-> i]
    /\ Len(Flatten(thist.batches)) <= tcfg.len
    /\ \A j \in 1..Len(thist.batches) :
          \/ Len(thist.batches[j]) = tcfg.size
          \/ /\ j = Len(thist.batches)
             /\ Len(thist.batches[j]) \in 1..(tcfg.size - 1)
             /\ Len(Flatten(thist.batches)) = tcfg.len
    /\ thist.absents > 0 =>
          /\ Len(Flatten(thist.batches)) = tcfg.len
          /\ Len(thist.batches) = (tcfg.len + tcfg.size - 1) \div tcfg.size

\* three elements were drained as a full batch and a shorter final one
C14_Witness ==
  /\ ~thist.overlapped
  /\ thist.stops = 0
  /\ tcfg.len = 3
  /\ tcfg.size = 2
  /\ thist.batches = << <<1, 2>>, <<3>> >>
  /\ thist.absents = 1

\* ------------------------------------------------------------------ C12
\* the elements of inner stream i, in their own order
InnerElements(i) == [j \in 1..fcfg[i] |-> <<i, j>>]

\* the concatenation of the inner streams i..Len(fcfg), in upstream order
RECURSIVE Concatenation(_)
Concatenation(i) ==
  IF i > Len(fcfg) THEN <<>> ELSE InnerElements(i) \o Concatenation(i + 1)

\* C12: under sequential calls of next(), without stop(), flatMappedAsyncIterable has
\* delivered a prefix of the concatenation of the inner streams in upstream order,
\* and when it has returned absent it has delivered the whole concatenation.
C12_ConcatenationInOrder ==
  (~fhist.overlapped /\ fhist.stops = 0) =>
    /\ Len(fhist.delivered) <= Len(Concatenation(1))
    /\ fhist.delivered = SubSeq(Concatenation(1), 1, Len(fhist.delivered))
    /\ fhist.absents > 0 => fhist.delivered = Concatenation(1)

\* [[], [a, b]] was drained by sequential calls: the empty inner stream was skipped,
\* the elements came in their order and absent came last
C12_Witness ==
  /\ ~fhist.overlapped
  /\ fhist.stops = 0
  /\ fcfg = <<0, 2>>
  /\ fhist.delivered = << <<2, 1>>, <<2, 2>> >>
  /\ fhist.absents = 1

\* ------------------------------------------------------------------ C26
\* C26: k >= max calls of next() on the limit, overlapping or not, over a source that
\* yielded a value to every pull and with no stop() from outside: once all of them
\* have resolved, exactly max of them returned a value and the other k - max absent.
C26_ExactlyMaxPresent ==
  (/\ lhist.stops = 0
   /\ \A p \in Pullers : puller[p].pc = "idle"
   /\ source.calls <= lcfg.len
   /\ lhist.calls >= lcfg.max) =>
     /\ Len(lhist.results) = lhist.calls
     /\ CountPresent(lhist.results) = lcfg.max
     /\ Len(lhist.results) - CountPresent(lhist.results) = lhist.calls - lcfg.max

\* more calls than max overlapped, each pulled a value, and all have resolved
C26_Witness ==
  /\ lhist.overlapped
  /\ lhist.stops = 0
  /\ lcfg.max > 0
  /\ lhist.calls > lcfg.max
  /\ source.calls = lhist.calls
  /\ source.calls <= lcfg.len
  /\ \A p \in Pullers : puller[p].pc = "idle"
  /\ CountPresent(lhist.results) = lcfg.max

\* ------------------------------------------------------------------ C29
\* C29: stop() on the iterable of iterableToAsync has no effect: whether or not
\* stop() was called in between, the k-th call of next() returns the k-th element
\* of the synchronous source, and absent once the source is used up.
C29_StopHasNoEffect ==
  pcfg.kind = "source" =>
    /\ Len(phist.early \o phist.late) = phist.calls
    /\ \A k \in 1..phist.calls :
          (phist.early \o phist.late)[k] = IF k <= pcfg.len THEN k ELSE Absent

\* a source of MaxLen elements was stopped after its first element; the calls made
\* afterwards returned the remaining elements and then absent
C29_Witness ==
  /\ pcfg.kind = "source"
  /\ pcfg.len = MaxLen
  /\ phist.stops > 0
  /\ phist.early = <<1>>
  /\ Len(phist.late) = MaxLen
  /\ phist.late[MaxLen] = Absent

\* ------------------------------------------------------------------ C23
\* the values of 1..n that the predicate accepts, in source order
RECURSIVE Accepted(_)
Accepted(n) ==
  IF n = 0 THEN <<>>
  ELSE IF n \in pcfg.accepts THEN Append(Accepted(n - 1), n) ELSE Accepted(n - 1)

C21_ValueDeliveredOnce ==
  /\ CountPresent(ohist.issued) <= 1
  /\ CountPresent(ohist.results) <= 1
  /\ \A k \in 1..Len(ohist.issued) :
        ohist.issued[k] = IF k = 1 THEN ocfg.value ELSE Absent

\* three calls overlapped on the stream of a present optional; absent was consumed
\* first and the value later
C21_Witness ==
  /\ ocfg.value # Absent
  /\ Len(ohist.issued) = 3
  /\ Len(ohist.results) = 3
  /\ ohist.results[1] = Absent
  /\ CountPresent(ohist.results) = 1

\* ------------------------------------------------------------------ C22
\* the first source element that satisfies the predicate, Absent when none does
FirstMatch ==
  IF scfg.accepts = {} THEN Absent
  ELSE CHOOSE v \in scfg.accepts : \A w \in scfg.accepts : v <= w

\* C22: findFirst(predicate) never pulls a source element beyond the first one that
\* satisfies the predicate and does not stop the iterable before it has its result;
\* its result is that first element, absent when there is none, and the iterable
\* is then stopped once.
C22_FindFirstWithPredicate ==
  operation.name = "findFirstWith" =>
    /\ asyncIterable.pos <= (IF FirstMatch # Absent THEN FirstMatch ELSE scfg.len)
    /\ operation.pc # "done" => asyncIterable.stops = 0
    /\ operation.pc = "done" =>
          /\ operation.result = FirstMatch
          /\ asyncIterable.pos = (IF FirstMatch # Absent THEN FirstMatch ELSE scfg.len)
          /\ asyncIterable.stops = 1

\* the predicate rejects the first of MaxLen elements and accepts the second:
\* findFirst(predicate) returned the second and stopped the iterable
C22_Witness ==
  /\ operation.name = "findFirstWith"
  /\ operation.pc = "done"
  /\ scfg.len = MaxLen
  /\ scfg.accepts = {2}
  /\ operation.result = 2
  /\ asyncIterable.calls = 2
  /\ asyncIterable.stops = 1

\* ------------------------------------------------------------------ C28
\* C28: a call of next() made on a filter, a flatMap, a transform or a limit after
\* stop() was called on it returns absent at once and pulls nothing from the
\* upstream; that of a transform invokes no finisher.
C28_AbsentWithoutPullAfterStop ==
  [][/\ (phist.stops > 0 /\ phist'.calls = phist.calls + 1) =>
          /\ upstream' = upstream
          /\ taker' = taker
          /\ phist'.late = Append(phist.late, Absent)
     /\ (fhist.stops > 0 /\ fhist'.calls = fhist.calls + 1) =>
          /\ fsource' = fsource
          /\ inner' = inner
          /\ fcaller' = fcaller
          /\ fhist'.absents = fhist.absents + 1
     /\ (thist.stops > 0 /\ thist'.calls = thist.calls + 1) =>
          /\ tsource' = tsource
          /\ tcaller' = tcaller
          /\ thist'.finisherCalls = thist.finisherCalls
          /\ thist'.absents = thist.absents + 1
     /\ (lhist.stops > 0 /\ lhist'.calls = lhist.calls + 1) =>
          /\ source' = source
          /\ puller' = puller
          /\ lhist'.results = Append(lhist.results, Absent)]_vars

\* a transform over a source that is not empty was stopped before its first call of
\* next(): the call returned absent, the source was not pulled, no finisher ran
C28_Witness ==
  /\ tcfg.len > 0
  /\ thist.stops = 1
  /\ thist.calls = 1
  /\ thist.absents = 1
  /\ thist.finisherCalls = 0
  /\ tsource.calls = 0
  /\ tsource.stops = 1

\* ------------------------------------------------------------------ C30
\* the longest prefix of the source 1..n whose elements all satisfy the predicate
RECURSIVE LongestPrefix(_)
LongestPrefix(n) ==
  IF n = 0 THEN <<>>
  ELSE IF Len(LongestPrefix(n - 1)) = n - 1 /\ n \in kcfg.accepts
       THEN Append(LongestPrefix(n - 1), n)
       ELSE LongestPrefix(n - 1)

\* C30: draining a TakeWhileIterable yields the longest prefix of source elements
\* that satisfy the predicate and nothing more: the array of toArray is at every
\* moment a prefix of it, and is it when the loop has ended.
C30_TakeWhileYieldsPrefix ==
  /\ Len(toArray.array) <= Len(LongestPrefix(kcfg.len))
  /\ toArray.array = SubSeq(LongestPrefix(kcfg.len), 1, Len(toArray.array))
  /\ toArray.pc = "done" => toArray.array = LongestPrefix(kcfg.len)

\* every element of a source of two satisfies the predicate: the source is used up,
\* hasNext() is still true and the last element was yielded again
C30_Witness ==
  /\ kcfg.len = 2
  /\ kcfg.accepts = {1, 2}
  /\ takeWhile.currentIndex = 2
  /\ toArray.array = <<1, 2, 2>>
  /\ toArray.pc = "hasNext"

\* ------------------------------------------------------------------ C24
\* C24: behind buffer(size), the number of invocations of the async mapper that are
\* running at the same time never exceeds size, whatever the timing of the mappers.
C24_RunningMappersAtMostSize ==
  bcfg.kind = "mapped" => Cardinality(iterable.mapping) <= bcfg.size

\* the mapper of the third element ended first and the buffer queued three more
\* fetches: the mappers of 1, 2, 4, 5 and 6 run together behind buffer(3)
C24_Witness ==
  /\ bcfg = TestCfg
  /\ iterable.mapping = {1, 2, 4, 5, 6}

\* ------------------------------------------------------------------ C25
\* C25: without a buffer, toArray over a stream with an async mapper keeps at most
\* one element in progress: no mapper is started while another one runs, the mappers
\* are started in source order and the array holds the results in source order.
C25_OneMapperAtATime ==
  /\ Cardinality(mapped.mapping) <= 1
  /\ collecting.started = [i \in 1..Len(collecting.started) |-> i]
  /\ collecting.array = [i \in 1..Len(collecting.array) |-> i]
  /\ Len(collecting.started) <= Len(collecting.array) + 1

\* the mapper of the second element runs, the first result is in the array
C25_Witness ==
  /\ mcfg.len >= 2
  /\ collecting.array = <<1>>
  /\ mapped.mapping = {2}
  /\ collecting.pc = "isPresent"

\* ------------------------------------------------------------------ C27
\* C27: what sequentialGeneratingIterable generates reaches a reader of buffer(3) that
\* calls next() one call after the other, as toArray does, in generation order,
\* whatever the timing of the generator and of the reader.
C27_GenerationOrderKept ==
  (bcfg.kind = "sequential" /\ ~bhist.overlapped /\ bhist.stops = 0) =>
    bhist.delivered = [i \in 1..Len(bhist.delivered) |-> i]

\* two values were generated in turn and lay in the ready list together; the reader
\* got the second before the first
C27_Witness ==
  /\ bcfg.kind = "sequential"
  /\ ~bhist.overlapped
  /\ bhist.stops = 0
  /\ bhist.delivered = <<2, 1>>

\* ------------------------------------------------------------------ C38
\* C38: once the limit is stopped, no step increments its committed counter and no
\* call of next() returns a present value; a call whose pull from the source was in
\* flight when stop() was called resolves to absent.
C38_NothingCommittedAfterStop ==
  [][limit.stop =>
       /\ limit'.count = limit.count
       /\ \A k \in (Len(lhist.results) + 1)..Len(lhist'.results) :
             lhist'.results[k] = Absent]_vars

\* a call pulled the first value of the source, stop() was called while that pull
\* was in flight, and the call has resolved: to absent, with the counter at 0
C38_Witness ==
  /\ lcfg.len > 0 /\ lcfg.max > 0
  /\ lhist.stops = 1
  /\ limit.stop
  /\ source.calls = 1
  /\ limit.count = 0
  /\ lhist.results = <<Absent>>
  /\ \A p \in Pullers : puller[p].pc = "idle"

\* ------------------------------------------------------------------ C36
\* C36: under overlapping calls of next() on transform(batch(k)), without stop(), the
\* delivered batches hold every source element exactly once: no call fails, no
\* element is in two batches (the trailing batch is delivered at most once), and
\* when the calls have ended with an absent result no element is missing.
C36_OverlapKeepsEveryElementOnce ==
  thist.stops = 0 =>
    /\ thist.errors = 0
    /\ \A i, j \in 1..Len(Flatten(thist.batches)) :
          Flatten(thist.batches)[i] = Flatten(thist.batches)[j] => i = j
    /\ (thist.absents > 0 /\ \A p \in Procs : tcaller[p].pc = "idle") =>
          SeqToSet(Flatten(thist.batches)) = 1..tcfg.len

\* two overlapping calls on a source of one element under batch(2): the call that
\* found the source exhausted ran the finisher before the other call had folded the
\* element in; both calls returned absent and the element is in no batch
C36_Witness ==
  /\ tcfg.len = 1
  /\ tcfg.size = 2
  /\ thist.stops = 0
  /\ thist.calls = 2
  /\ thist.absents = 2
  /\ thist.batches = <<>>
  /\ transforming.accumulator.a = <<1>>
  /\ \A p \in Procs : tcaller[p].pc = "idle"

\* ------------------------------------------------------------------ C35
\* the elements that a call of next() in flight has taken from an inner stream and
\* is about to return
InHand == {fcaller[p].next : p \in {q \in Procs : fcaller[q].pc \in {"awaitBatch", "awaitIsPresent"}}}
            \ {NoElement}

C34_AbsentIsFinal ==
  [][(bcfg.driver = "free" /\ ~bhist'.overlapped /\ bhist.absents > 0) =>
       bhist'.delivered = bhist.delivered]_vars

\* the first call returned absent while the fetch of a value was in flight; the fetch
\* has settled since, and the second call has taken the value and is about to return it
C34_Witness ==
  /\ bcfg.driver = "free"
  /\ ~bhist.overlapped
  /\ bhist.stops = 0
  /\ bhist.calls = 2
  /\ bhist.absents = 1
  /\ bhist.delivered = <<>>
  /\ \E p \in Procs : /\ caller[p].pc = "sleepReady"
                       /\ caller[p].isPresent

\* ------------------------------------------------------------------ C33
\* C33: when the fetches of the upstream settle in the end, every call of next() on
\* the buffer returns in the end: a call that finds nothing resolved waits and
\* retries until it can deliver or the buffer is drained; and the calls deliver no
\* more present values than the finite source holds.
C33_EveryCallReturns ==
  /\ (caller[1].pc # "idle") ~> (caller[1].pc = "idle")
  /\ [](Len(bhist.delivered) <= bcfg.len)

\* a call found nothing resolved, waited for the fetches in flight, retried, and has
\* returned the value
C33_Witness ==
  /\ bcfg.kind = "generic" /\ bcfg.driver = "free"
  /\ bcfg.size > 1
  /\ bhist.calls = 1
  /\ bhist.delivered = <<1>>
  /\ caller[1].pc = "idle"

\* ------------------------------------------------------------------ C37
\* C37: however the calls of next() on sequentialGeneratingIterable overlap, the
\* promises list holds at most one entry, at most one invocation of the generator
\* is unsettled, and every call returns the value of the invocation it started.
C37_OneGeneratorAtATime ==
  /\ Len(gen.promises) <= 1
  /\ Cardinality(gen.unsettled) <= 1
  /\ \A i \in 1..Len(ghist.returned) : ghist.returned[i].got = ghist.returned[i].own

\* three calls overlapped: two have returned the values of their own invocations,
\* the third has started the generator after waiting for them
C37_Witness ==
  /\ ghist.overlapped
  /\ Len(ghist.returned) = 2
  /\ gen.invoked = 3
  /\ gen.unsettled = {3}
  /\ \E p \in Pullers : gcaller[p].pc = "race" /\ gcaller[p].own = 3

\* ------------------------------------------------------------------ C39
\* C39: hasNext() is idempotent for every synchronous iterable: calls of hasNext()
\* in succession, with no getNext() between them, give the same answer, and the
\* getNext() that follows returns the element it would have returned after the
\* first of them.
C39_HasNextIdempotent ==
  \A i \in 1..Len(ihist.answers) :
    /\ ihist.answers[i] = ihist.answers[1]
    /\ ihist.peeks[i] = ihist.peeks[1]

\* on a FilteringIterable over [1, 2] whose predicate accepts everything the
\* second hasNext() has consumed 1: getNext() would return 2
C39_Witness ==
  /\ icfg.kind = "filter"
  /\ icfg.array = <<1, 2>>
  /\ icfg.pass = 1..MaxValue
  /\ ihist.answers = <<TRUE, TRUE>>
  /\ ihist.peeks = << <<1>>, <<2>> >>

\* ------------------------------------------------------------------ C32
\* the elements of the inner streams of flatMap, in order, each inner stream with
\* its filter applied
Expected(c) ==
  Flatten([i \in 1..Len(c.outer) |->
             IF c.filtered
             THEN SelectSeq(c.outer[i], LAMBDA v : v \in c.pass)
             ELSE c.outer[i]])

\* C32: a consumer that alternates hasNext() and getNext() on the iterable of
\* flatMap receives the elements of the inner streams in order, and has received
\* all of them when hasNext() answers false, whether or not the inner streams
\* carry a filter.
C32_FlatMapYieldsEveryElement ==
  (icfg.kind = "flat" /\ ~ihist.doubled) =>
    /\ Len(ihist.out) <= Len(Expected(icfg))
    /\ ihist.out = SubSeq(Expected(icfg), 1, Len(ihist.out))
    /\ ihist.answers = <<FALSE>> => ihist.out = Expected(icfg)

\* Stream.of([1, 2]).flatMap(a => Stream.ofArray(a).filter(v => true)): the
\* traversal has ended with the single element 2
C32_Witness ==
  /\ icfg.kind = "flat"
  /\ icfg.filtered
  /\ icfg.outer = << <<1, 2>> >>
  /\ icfg.pass = 1..MaxValue
  /\ ~ihist.doubled
  /\ ihist.answers = <<FALSE>>
  /\ ihist.out = <<2>>

\* ------------------------------------------------------------------ C31
\* C31: once the finisher of a TransformingIterator has run, every further call
\* of hasNext() answers false, so that at most one item follows the exhaustion of
\* the source, whatever the transformer.
C31_NothingAfterTheFinisher ==
  icfg.kind = "transform" => \A i \in 2..Len(ihist.fins) : ~ihist.fins[i]

\* sorted() over [2, 1]: the sorted array has been delivered, and then the empty
\* array, sorted from the wiped accumulator, twice more
C31_Witness ==
  /\ icfg.kind = "transform"
  /\ icfg.transformer.name = "sorted"
  /\ icfg.array = <<2, 1>>
  /\ ~ihist.doubled
  /\ ihist.fins = <<TRUE, TRUE, TRUE>>
  /\ ihist.out = << <<1, 2>>, <<>>, <<>> >>

====
